---- MODULE Spec2Model ----
(***************************************************************************)
(* Model of the summon task scheduler (summonmm/tasks/_tasks_parallel.py), *)
(* its worker processes and logging thread, and of the folder cache's task *)
(* pipeline (summonmm/cache/folder_cache.py) that runs on top of it.       *)
(*                                                                         *)
(* Task names are sequences of tokens, so that str.startswith() and the    *)
(* trailing "*" of a prefix pattern are computed, not assumed.  Times are  *)
(* integers in milliseconds.  Every caller in the repository constructs    *)
(* Parallel with dbg_serialize=False and jsonfname=None, and so does the   *)
(* model.  Global process initializers are assumed not to raise.           *)
(***************************************************************************)
EXTENDS Integers, Sequences, FiniteSets, TLC

VARIABLES
    prog,     \* the client program: tasks added before run(), tasks given to run()
    par,      \* the Parallel object (main process)
    mainpc,   \* position of the main thread
    inq,      \* _inqueues: one per worker process
    outq,     \* _outq
    logq,     \* _logq
    outlogq,  \* _out_logq
    wstate,   \* per worker process: position in _proc_func
    logst,    \* logging thread: _LoggingThreadState._state and whether it returned
    fc,       \* the FolderCache object
    rgd,      \* the RootGitData object (archive index)
    io,       \* the resolver's query and its answer; during a run of Parallel, the
              \* pools of shared returns of the worker processes
    hist      \* history of observations the properties talk about

vars == <<prog, par, mainpc, inq, outq, logq, outlogq, wstate, logst, fc, rgd, io, hist>>

----------------------------------------------------------------------------
(* Bounds *)

MaxProc == 2          \* nproc is drawn from 1..MaxProc
MaxInit == 3          \* a client program declares at most MaxInit task templates
MaxFiles == 4         \* the source VFS holds at most MaxFiles files
MaxArchives == 3      \* an index or a known-archives.json holds at most MaxArchives archives
MaxPlugins == 3       \* a FOMOD module config holds at most MaxPlugins install steps
MaxForks == 5         \* the cap of fomod_guess on its simulations (50000 in the source), scaled to
                      \* what configs of MaxPlugins steps can request

----------------------------------------------------------------------------
(* Program constants *)

Pending == 0
Ready == 1
Running == 2
Done == 3

PlaceholderWaiting == 1000000
DefaultOwnWeight == 100        \* 0.1 s
DefaultTaskWeight == 1000      \* 1.0 s
BatchThreshold == 100          \* 0.1 s

NoW == -1                      \* Task.w is None
NoName == <<>>                 \* _current_task_node is None

----------------------------------------------------------------------------
(* Tasks (summonmm/tasks/_tasks_common.py) *)

NoDD == [has |-> FALSE, required_tags |-> {}, required_not_tags |-> {}, provided_tags |-> {}]

TaskDataDependencies(req, reqnot, prov) ==
    [has |-> TRUE, required_tags |-> req, required_not_tags |-> reqnot, provided_tags |-> prov]

\* param of an owner task: the calls its function makes on the scheduler
Task(name, f, param, dependencies, w) ==
    [name |-> name, kind |-> "Task", f |-> f, param |-> param,
     dependencies |-> dependencies, w |-> w, data_dependencies |-> NoDD]

OwnTask(name, f, param, dependencies, w, dd) ==
    [name |-> name, kind |-> "OwnTask", f |-> f, param |-> param,
     dependencies |-> dependencies, w |-> w, data_dependencies |-> dd]

TaskPlaceholder(name) ==
    [name |-> name, kind |-> "TaskPlaceholder", f |-> "none", param |-> <<>>,
     dependencies |-> <<>>, w |-> NoW, data_dependencies |-> NoDD]

\* a call on Parallel made by client code or by an owner task's function:
\* add_task(t), add_tasks(ts) or replace_task_placeholder(t) ("replace")
Call(op, tasks) == [op |-> op, tasks |-> tasks]

\* d.endswith("*")
IsPattern(d) == Len(d) > 0 /\ d[Len(d)] = "*"

\* d[:-1]
PatternPrefix(d) == SubSeq(d, 1, Len(d) - 1)

\* name.startswith(p)
StartsWith(name, p) == Len(p) <= Len(name) /\ SubSeq(name, 1, Len(p)) = p

Range(s) == {s[i] : i \in 1..Len(s)}

----------------------------------------------------------------------------
(* _TaskGraphNode *)

\* entries of node.parents: a node ("node", by name), a node object that has
\* since been replaced ("stale", the old placeholder), or a "pattern" string
Parent(kind, n) == [kind |-> kind, name |-> n]

TaskGraphNode(task, parents, weight, guaranteedtags) ==
    [task |-> task, children |-> <<>>, parents |-> parents, own_weight |-> weight,
     max_leaf_weight |-> 0, state |-> Pending, waiting_for_n_deps |-> 0,
     guaranteed_tags |-> guaranteedtags]

total_weight(node) == node.own_weight + node.max_leaf_weight

\* parent.append_leaf(leaf) with _adjust_leaf_weight.  A replaced placeholder
\* object is still Pending, has no parents and is referenced by nothing else,
\* so adjusting it changes no live node.
append_leaf(nodes0, parent, leaf) ==
    LET RECURSIVE adjust_leaf_weight(_, _, _)
        RECURSIVE AdjustParents(_, _, _)
        adjust_leaf_weight(nodes, nm, w) ==
            IF nodes[nm].max_leaf_weight < w
            THEN AdjustParents([nodes EXCEPT ![nm].max_leaf_weight = w], nm, 1)
            ELSE nodes
        AdjustParents(nodes, nm, i) ==
            IF i > Len(nodes[nm].parents) THEN nodes
            ELSE IF nodes[nm].parents[i].kind # "node"
                    \/ nodes[nodes[nm].parents[i].name].state >= Ready
            THEN AdjustParents(nodes, nm, i + 1)
            ELSE AdjustParents(
                     adjust_leaf_weight(nodes, nodes[nm].parents[i].name,
                                        total_weight(nodes[nm])),
                     nm, i + 1)
    IN adjust_leaf_weight([nodes0 EXCEPT ![parent].children = Append(@, leaf)],
                          parent, nodes0[leaf].own_weight)

----------------------------------------------------------------------------
(* heapq over node names, ordered by _TaskGraphNode.__lt__ on the nodes'   *)
(* current weights                                                         *)

\* _TaskGraphNode.__lt__
node_lt(nodes, a, b) == total_weight(nodes[a]) < total_weight(nodes[b])

\* heapq._siftdown
siftdown(h0, nodes, startpos, pos0) ==
    LET RECURSIVE Loop(_, _, _)
        Loop(h, newitem, pos) ==
            IF pos > startpos /\ node_lt(nodes, newitem, h[(pos - 1) \div 2 + 1])
            THEN Loop([h EXCEPT ![pos + 1] = h[(pos - 1) \div 2 + 1]], newitem,
                      (pos - 1) \div 2)
            ELSE [h EXCEPT ![pos + 1] = newitem]
    IN Loop(h0, h0[pos0 + 1], pos0)

heappush(h, nodes, item) == siftdown(Append(h, item), nodes, 0, Len(h))

\* heapq.heappop with _siftup: the popped item and the remaining heap
heappop(h0, nodes) ==
    LET RECURSIVE Up(_, _, _)
        Up(h, newitem, pos) ==
            LET childpos == 2 * pos + 1
                rightpos == childpos + 1
                c == IF rightpos < Len(h) /\ ~node_lt(nodes, h[childpos + 1], h[rightpos + 1])
                     THEN rightpos ELSE childpos
            IN IF childpos < Len(h)
               THEN Up([h EXCEPT ![pos + 1] = h[c + 1]], newitem, c)
               ELSE siftdown([h EXCEPT ![pos + 1] = newitem], nodes, 0, pos)
        lastelt == h0[Len(h0)]
        rest == SubSeq(h0, 1, Len(h0) - 1)
    IN IF rest = <<>>
       THEN [item |-> lastelt, heap |-> rest]
       ELSE [item |-> rest[1], heap |-> Up([rest EXCEPT ![1] = lastelt], lastelt, 0)]

----------------------------------------------------------------------------
(* Parallel: building the task graph                                       *)

Raise(P, e) == [P EXCEPT !.err = e]

\* Parallel._dependencies_to_parents
dependencies_to_parents(nodes, dependencies) ==
    LET named == SelectSeq(dependencies, LAMBDA d : ~IsPattern(d))
        pats == SelectSeq(dependencies, IsPattern)
    IN [ok |-> \A i \in 1..Len(named) : named[i] \in DOMAIN nodes,
        taskparents |-> named,
        patterns |-> [i \in 1..Len(pats) |-> PatternPrefix(pats[i])]]

\* only a parent that is still Pending is waited for
ParentIsOutstanding_OnlyPending(state) == state < Ready

\* line 514: a parent that is not Done yet is waited for
ParentIsOutstanding(state) == state < Done

\* Parallel._internal_add_task_if; cur is _current_task_node.
\* Returns the new scheduler state and the bool the method returns.
internal_add_task_if(P, task, cur) ==
    LET nodes0 == P.all_task_nodes
        name == task.name
        dd == task.data_dependencies
        own == task.kind = "OwnTask"
        w == IF task.w # NoW THEN task.w
             ELSE IF own THEN DefaultOwnWeight ELSE DefaultTaskWeight
        \* lines 534-561, from the graph with the node and its edges in place
        Finish(nodes2, pp) ==
            LET isready == nodes2[name].waiting_for_n_deps = 0
                RECURSIVE Notify(_, _)
                Notify(nodes, i) ==
                    IF i > Len(pp) THEN nodes
                    ELSE IF StartsWith(name, pp[i][1])
                    THEN Notify([nodes EXCEPT ![name].children = Append(@, pp[i][2]),
                                              ![pp[i][2]].waiting_for_n_deps = @ + 1], i + 1)
                    ELSE Notify(nodes, i + 1)
                Enter(nodes3) ==
                    [P EXCEPT
                        !.all_task_nodes = Notify(nodes3, 1),
                        !.pending_patterns = pp,
                        !.pending_task_nodes = IF isready THEN @ ELSE @ \cup {name},
                        !.ready_own_task_nodes = IF isready /\ own THEN @ \cup {name} ELSE @,
                        !.ready_own_task_nodes_heap =
                            IF isready /\ own THEN heappush(@, nodes3, name) ELSE @,
                        !.ready_task_nodes = IF isready /\ ~own THEN @ \cup {name} ELSE @,
                        !.ready_task_nodes_heap =
                            IF isready /\ ~own THEN heappush(@, nodes3, name) ELSE @]
            IN [ok |-> TRUE,
                par |-> Enter(IF isready THEN [nodes2 EXCEPT ![name].state = Ready]
                              ELSE nodes2)]
        \* lines 466-532, once the dependencies are split into names and patterns
        Build(tp, pats) ==
            LET inherited ==
                    (IF cur = NoName THEN {} ELSE nodes0[cur].guaranteed_tags)
                    \cup UNION {nodes0[tp[i]].guaranteed_tags : i \in 1..Len(tp)}
                node0 == [TaskGraphNode(task, [i \in 1..Len(tp) |-> Parent("node", tp[i])], w,
                                        inherited \cup dd.provided_tags)
                          EXCEPT !.waiting_for_n_deps =
                              IF task.kind = "TaskPlaceholder" THEN PlaceholderWaiting ELSE 0]
                Count(n1, i) ==
                    IF ParentIsOutstanding(n1[tp[i]].state)
                    THEN [n1 EXCEPT ![name].waiting_for_n_deps = @ + 1]
                    ELSE n1
                RECURSIVE Parents(_, _)
                Parents(nodes, i) ==
                    IF i > Len(tp) THEN nodes
                    ELSE Parents(Count(append_leaf(nodes, tp[i], name), i), i + 1)
                RECURSIVE Patterns(_, _, _)
                Patterns(nodes, pp, i) ==
                    IF i > Len(pats) THEN Finish(nodes, pp)
                    ELSE LET p == pats[i]
                             m == {n \in DOMAIN nodes :
                                      nodes[n].state < Done
                                      /\ StartsWith(n, p)}
                         IN Patterns(
                                [n \in DOMAIN nodes |->
                                    [nodes[n] EXCEPT
                                        !.children = IF n \in m THEN Append(@, name) ELSE @,
                                        !.waiting_for_n_deps =
                                            IF n = name THEN @ + Cardinality(m) ELSE @,
                                        !.parents =
                                            IF n = name THEN Append(@, Parent("pattern", p)) ELSE @]],
                                Append(pp, <<p, name>>), i + 1)
            IN IF ~(dd.required_tags \subseteq inherited)
               THEN [par |-> Raise(P, "assert481"), ok |-> FALSE]
               ELSE IF dd.required_not_tags \cap inherited # {}
               THEN [par |-> Raise(P, "assert489"), ok |-> FALSE]
               ELSE Patterns(Parents(nodes0 @@ (name :> node0), 1), P.pending_patterns, 1)
        Split(d2p) ==
            IF ~d2p.ok THEN [par |-> P, ok |-> FALSE]
            ELSE Build(d2p.taskparents, d2p.patterns)
    IN IF task.kind # "OwnTask" /\ dd.has
       THEN [par |-> Raise(P, "assert445"), ok |-> FALSE]
       ELSE IF name \in DOMAIN nodes0
       THEN [par |-> Raise(P, "assert449"), ok |-> FALSE]
       ELSE Split(dependencies_to_parents(nodes0, task.dependencies))

\* Parallel.add_task
add_task(P, task, cur) ==
    LET Added(r) ==
            IF r.par.err # "" THEN r.par
            ELSE IF ~r.ok THEN Raise(P, "cannot add task")
            ELSE r.par
    IN IF task.name \in DOMAIN P.all_task_nodes THEN Raise(P, "assert988")
       ELSE Added(internal_add_task_if(P, task, cur))

\* Parallel.add_tasks
RECURSIVE add_tasks(_, _, _)
add_tasks(P, tasks, cur) ==
    LET RECURSIVE Try(_)
        Added(r, i) ==
            IF r.par.err # "" THEN r.par
            ELSE IF r.ok
            THEN add_tasks(r.par,
                           SubSeq(tasks, 1, i - 1) \o SubSeq(tasks, i + 1, Len(tasks)),
                           cur)
            ELSE Try(i + 1)
        Try(i) ==
            IF i > Len(tasks) THEN Raise(P, "cannot resolve tasks")
            ELSE Added(internal_add_task_if(P, tasks[i], cur), i)
    IN IF tasks = <<>> THEN P ELSE Try(1)

\* Parallel.replace_task_placeholder.  The children of the placeholder keep
\* the old node object in their parents lists.
replace_task_placeholder(P, task, cur) ==
    LET name == task.name
        nodes0 == P.all_task_nodes
        Added(P1, children) ==
            IF P1.err # "" THEN P1
            ELSE IF name \notin P1.pending_task_nodes THEN Raise(P1, "assert1007")
            ELSE IF P1.all_task_nodes[name].children # <<>> THEN Raise(P1, "assert1008")
            ELSE [P1 EXCEPT !.all_task_nodes[name].children = children]
    IN IF name \notin DOMAIN nodes0 THEN Raise(P, "assert998")
       ELSE IF name \notin P.pending_task_nodes THEN Raise(P, "assert999")
       ELSE IF nodes0[name].task.kind # "TaskPlaceholder" THEN Raise(P, "assert1002")
       ELSE Added(add_task(
                      [P EXCEPT
                          !.pending_task_nodes = @ \ {name},
                          !.all_task_nodes = [n \in DOMAIN nodes0 \ {name} |->
                              [nodes0[n] EXCEPT !.parents =
                                  [i \in 1..Len(@) |-> IF @[i] = Parent("node", name)
                                                       THEN Parent("stale", name) ELSE @[i]]]]],
                      task, cur),
                  nodes0[name].children)

----------------------------------------------------------------------------
(* Parallel: completing tasks                                              *)

\* Parallel._node_is_ready
node_is_ready(P, ch) ==
    IF P.all_task_nodes[ch].state # Pending THEN Raise(P, "assert745")
    ELSE IF ch \in P.ready_task_nodes THEN Raise(P, "assert746")
    ELSE IF ch \in P.ready_own_task_nodes THEN Raise(P, "assert747")
    ELSE IF ch \notin P.pending_task_nodes THEN Raise(P, "assert748")
    ELSE LET nodes == [P.all_task_nodes EXCEPT ![ch].state = Ready]
             own == nodes[ch].task.kind = "OwnTask"
         IN [P EXCEPT
                !.all_task_nodes = nodes,
                !.pending_task_nodes = @ \ {ch},
                !.ready_own_task_nodes = IF own THEN @ \cup {ch} ELSE @,
                !.ready_own_task_nodes_heap = IF own THEN heappush(@, nodes, ch) ELSE @,
                !.ready_task_nodes = IF own THEN @ ELSE @ \cup {ch},
                !.ready_task_nodes_heap = IF own THEN @ ELSE heappush(@, nodes, ch)]

\* _TaskGraphNode.mark_as_done_and_handle_children followed by the callers'
\* loop over the returned nodes (_node_is_ready) and the entry in _done_task_nodes
mark_as_done_and_handle_children(P, name, out) ==
    LET st == P.all_task_nodes[name].state
        kids == P.all_task_nodes[name].children
        Entered(P2) ==
            IF P2.err # "" THEN P2
            ELSE [P2 EXCEPT !.done_task_nodes = @ @@ (name :> out)]
        RECURSIVE Readies(_, _, _)
        Readies(Q, rdy, i) ==
            IF i > Len(rdy) \/ Q.err # "" THEN Q
            ELSE Readies(node_is_ready(Q, rdy[i]), rdy, i + 1)
        RECURSIVE Kids(_, _, _)
        Kids(Q, rdy, i) ==
            IF i > Len(kids) THEN Readies(Q, rdy, 1)
            ELSE LET ch == kids[i]
                     n == Q.all_task_nodes[ch]
                 IN IF n.state # Pending THEN Raise(Q, "assert190")
                    ELSE IF ~(n.waiting_for_n_deps > 0) THEN Raise(Q, "assert191")
                    ELSE Kids([Q EXCEPT !.all_task_nodes[ch].waiting_for_n_deps = @ - 1],
                              IF n.waiting_for_n_deps - 1 = 0 THEN Append(rdy, ch) ELSE rdy,
                              i + 1)
    IN IF st # Ready /\ st # Running THEN Raise(P, "assert183")
       ELSE Entered(Kids([P EXCEPT !.all_task_nodes[name].state = Done], <<>>, 1))

----------------------------------------------------------------------------
(* Parallel: dispatching worker tasks                                      *)

\* the first process, whatever it has been sent
find_best_process_First(reqs) == 0

\* Parallel._find_best_process over _process_requests
find_best_process(reqs) ==
    LET idle == {i \in DOMAIN reqs : Len(reqs[i]) = 0}
        one == {i \in DOMAIN reqs : Len(reqs[i]) = 1}
        Min(S) == CHOOSE x \in S : \A y \in S : x <= y
    IN IF idle # {} THEN Min(idle)
       ELSE IF one = {} THEN -1
       ELSE Min({i \in one : \A j \in one : reqs[i][1] <= reqs[j][1]})

\* Parallel._schedule_best_tasks: the scheduler state afterwards, the bool it
\* returns, the process chosen and the batch (task names) put on its queue
schedule_best_tasks(P) ==
    LET pidx == find_best_process(P.process_requests)
        none(Q) == [par |-> Q, ok |-> FALSE, pidx |-> -1, batch |-> <<>>]
        RECURSIVE Pack(_, _, _)
        Take(Q, batch, total_time, name, heap) ==
            LET node == Q.all_task_nodes[name]
                Q1 == [Q EXCEPT !.ready_task_nodes_heap = heap]
            IN IF node.task.kind # "Task" THEN none(Raise(Q1, "assert807"))
               ELSE IF \E i \in 1..Len(node.parents) :
                           node.parents[i].kind # "pattern"
                           /\ node.parents[i].name \notin DOMAIN Q.done_task_nodes
               THEN none(Raise(Q1, "KeyError815"))
               ELSE IF \E i \in 1..Len(node.parents) : node.parents[i].kind = "pattern"
               THEN none(Raise(Q1, "assert819"))
               ELSE IF node.state # Ready THEN none(Raise(Q1, "assert821"))
               ELSE Pack([Q1 EXCEPT
                             !.ready_task_nodes = @ \ {name},
                             !.all_task_nodes[name].state = Running,
                             !.running_task_nodes = @ @@ (name :> pidx)],
                         Append(batch, name),
                         total_time + node.own_weight)
        Popped(Q, batch, total_time, popped) ==
            Take(Q, batch, total_time, popped.item, popped.heap)
        Pack(Q, batch, total_time) ==
            IF ~(Q.ready_task_nodes # {} /\ total_time < BatchThreshold)
            THEN [par |-> [Q EXCEPT !.process_requests[pidx] = Append(@, total_time)],
                  ok |-> TRUE, pidx |-> pidx, batch |-> batch]
            ELSE Popped(Q, batch, total_time,
                        heappop(Q.ready_task_nodes_heap, Q.all_task_nodes))
    IN IF Cardinality(P.ready_task_nodes) # Len(P.ready_task_nodes_heap)
       THEN none(Raise(P, "assert789"))
       ELSE IF P.ready_task_nodes = {} \/ pidx < 0 THEN none(P)
       ELSE Pack(P, <<>>, 0)

\* Parallel._process_out_tasks
process_out_tasks(P, procnum, outtasks) ==
    LET RECURSIVE Each(_, _)
        Each(Q, i) ==
            IF i > Len(outtasks) \/ Q.err # "" THEN Q
            ELSE LET taskname == outtasks[i].name IN
                 IF taskname \notin DOMAIN Q.running_task_nodes THEN Raise(Q, "assert762")
                 ELSE IF Q.all_task_nodes[taskname].state # Running THEN Raise(Q, "assert764")
                 ELSE IF Q.running_task_nodes[taskname] # procnum THEN Raise(Q, "assert766")
                 ELSE IF taskname \in DOMAIN Q.done_task_nodes THEN Raise(Q, "assert778")
                 ELSE Each(mark_as_done_and_handle_children(
                               [Q EXCEPT !.running_task_nodes =
                                   [n \in DOMAIN @ \ {taskname} |-> @[n]]],
                               taskname, outtasks[i].out),
                           i + 1)
    IN Each(P, 1)

\* Parallel._log_stats: the assertions on the sizes of the collections
log_stats(P) ==
    IF Cardinality(P.ready_task_nodes) # Len(P.ready_task_nodes_heap)
    THEN Raise(P, "assert1176")
    ELSE IF Cardinality(DOMAIN P.all_task_nodes) #
              Cardinality(P.pending_task_nodes) + Cardinality(P.ready_task_nodes)
            + Cardinality(P.ready_own_task_nodes) + Cardinality(DOMAIN P.running_task_nodes)
            + Cardinality(DOMAIN P.done_task_nodes)
    THEN Raise(P, "assert1210")
    ELSE P

\* Parallel.is_all_done
is_all_done(P) ==
    Cardinality(DOMAIN P.done_task_nodes) = Cardinality(DOMAIN P.all_task_nodes)

----------------------------------------------------------------------------
(* FolderCache (summonmm/cache/folder_cache.py)                            *)
(* The file system is a root folder <<"r">> holding file f1 and subfolder  *)
(* <<"r","s">> holding file f2; paths are sequences of components.         *)

RootDir == <<"r">>
SubDirsOf(d) == IF d = RootDir THEN << <<"r", "s">> >> ELSE <<>>
FilesOf(d) == IF d = RootDir THEN << <<"r", "f1">> >> ELSE << <<"r", "s", "f2">> >>

\* a FolderToCache that forgets its excluded folders
FolderToCache_NoExdirs(folder, exdirs) == [folder |-> folder, exdirs |-> {}]

FolderToCache(folder, exdirs) ==
    [folder |-> folder, exdirs |-> {x \in exdirs : StartsWith(x, folder)}]

\* FileOnDisk(file_hash, file_modified, file_path, file_size)
FileOnDisk(h, tstamp, fpath, fsize) ==
    [file_hash |-> h, file_modified |-> tstamp, file_path |-> fpath, file_size |-> fsize]

\* calculate_file_hash_ex: the digest of a content (injective on the contents
\* of the model)
calculate_file_hash(content) == <<"sha256", content>>

\* the tree on disk during the run: os.lstat and the bytes of each file
DiskStat(fpath) == [content |-> "new", st_mtime |-> 2, st_size |-> 1048576]

\* the pickled cache of the previous run, as _read_dict_of_files returns it.
\* fstat tells for each path what the previous run saw there: the same file
\* ("matched"), another content with another timestamp ("modified"), a file
\* that is gone since ("deleted"), or nothing ("new", "never").
read_dict_of_files(fstat) ==
    LET known == {f \in DOMAIN fstat : fstat[f] \in {"matched", "modified", "deleted"}}
    IN [f \in known |->
           IF fstat[f] = "matched"
           THEN FileOnDisk(calculate_file_hash("new"), 2, f, 1048576)
           ELSE FileOnDisk(calculate_file_hash("old"), 1, f, 1048575)]

\* FolderCache.scan_dir: the records found in the loaded cache for the files
\* met, the files that need (re)hashing and the subfolders left to a new
\* task.  split tells whether more than 0.5 s had elapsed when the subfolder
\* was met.
RECURSIVE scan_dir(_, _, _, _)
scan_dir(tocache, dirpath, filesbypath, split) ==
    LET fs == FilesOf(dirpath)
        matched(f) ==
            /\ f \in DOMAIN filesbypath
            /\ filesbypath[f].file_modified = DiskStat(f).st_mtime
            /\ filesbypath[f].file_size = DiskStat(f).st_size
        unmatched == SelectSeq(fs, LAMBDA f : ~matched(f))
        own == [scanned_files |->
                    [f \in {fs[i] : i \in {j \in 1..Len(fs) : fs[j] \in DOMAIN filesbypath}} |->
                        filesbypath[f]],
                requested_files |->
                    [i \in 1..Len(unmatched) |->
                        [fpath |-> unmatched[i],
                         tstamp |-> DiskStat(unmatched[i]).st_mtime,
                         fsize |-> DiskStat(unmatched[i]).st_size]],
                requested_dirs |-> <<>>]
        Merge(acc, sub) ==
            [scanned_files |-> sub.scanned_files @@ acc.scanned_files,
             requested_files |-> acc.requested_files \o sub.requested_files,
             requested_dirs |-> acc.requested_dirs \o sub.requested_dirs]
        RECURSIVE Dirs(_, _)
        Dirs(acc, i) ==
            IF i > Len(SubDirsOf(dirpath)) THEN acc
            ELSE LET newdir == SubDirsOf(dirpath)[i] IN
                 IF newdir \in tocache.exdirs THEN Dirs(acc, i + 1)
                 ELSE IF split
                 THEN Dirs([acc EXCEPT !.requested_dirs = Append(@, newdir)], i + 1)
                 ELSE Dirs(Merge(acc, scan_dir(tocache, newdir, filesbypath, split)), i + 1)
    IN Dirs(own, 1)

\* the task names and data-dependency tags of the cache named "c"
TaskName(kind, path) == <<"summon.foldercache.c.", kind>> \o path
Tag(t) == <<"summon.foldercache.c.", t>>

\* hash task weight: _hashing_file_time_estimate of a 1 MiB file, in ms
hashing_file_time_estimate(fsize) == (fsize * 1000) \div (1048576 * 30)

\* the [scan, ownscan] pair of a folder, as _start_tasks (w, default own
\* weight) and _scan_folder_own_task_func (1.0, 0.01) build it
ScanTaskPair(tocache, w, ownw) ==
    << Task(TaskName("scan.", tocache.folder), "_scan_folder_task_func", tocache,
            <<TaskName("ownload", <<>>)>>, w),
       OwnTask(TaskName("ownscan.", tocache.folder), "_scan_folder_own_task_func", <<>>,
               <<TaskName("scan.", tocache.folder)>>, ownw, NoDD) >>

\* the [hash, ownhash] pair of a file
HashTaskPair(f) ==
    << Task(TaskName("hash.", f.fpath), "_calc_hash_task_func", f, <<>>,
            hashing_file_time_estimate(f.fsize)),
       OwnTask(TaskName("ownhash.", f.fpath), "_own_calc_hash_task_func", <<>>,
               <<TaskName("hash.", f.fpath)>>, 1,
               TaskDataDependencies({Tag("_files_by_path")}, {Tag("reconciled()")}, {})) >>

\* reconcile waiting for the scans only
ReconcileDependencies_ScansOnly ==
    << TaskName("ownload", <<>>), TaskName("ownscan.", <<"*">>) >>

\* the dependencies of the reconcile task
ReconcileDependencies ==
    << TaskName("ownload", <<>>),
       TaskName("ownscan.", <<"*">>),
       TaskName("ownhash.", <<"*">>) >>

\* FolderCache._start_tasks: the calls it makes on Parallel, in order.
\* scantasks is allscantasks, the folders of the initial scan tasks.
start_tasks(scantasks) ==
    << [op |-> "add_task",
        tasks |-> << Task(TaskName("load", <<>>), "_load_files_task_func", <<>>, <<>>, NoW) >>],
       [op |-> "add_task",
        tasks |-> << OwnTask(TaskName("ownload", <<>>), "_load_files_own_task_func", <<>>,
                             <<TaskName("load", <<>>)>>, NoW,
                             TaskDataDependencies({}, {Tag("reconciled()")}, {Tag("_files_by_path")})) >>] >>
    \o [i \in 1..Len(scantasks) |->
           [op |-> "add_tasks", tasks |-> ScanTaskPair(scantasks[i], 500, NoW)]]
    \o << [op |-> "add_task",
           tasks |-> << OwnTask(TaskName("reconcile", <<>>), "_own_reconcile_task_func", <<>>,
                                ReconcileDependencies, NoW,
                                TaskDataDependencies({Tag("_files_by_path")}, {},
                                                     {Tag("reconciled()"), Tag("ready()")})) >>] >>

----------------------------------------------------------------------------
(* The archive index (summonmm/cache/root_git_data.py) and its client      *)
(* AvailableFiles (summonmm/cache/available_files.py)                      *)
(*                                                                         *)
(* A path is a sequence of tokens that ends with the file's stem and its   *)
(* extension ("" when it has none), so that os.path.splitext(p)[1] is the  *)
(* last token and os.path.split(p)[1] the last two.  The plugins are those  *)
(* of the plugin folders (NEXUS; FOMOD, BAIN, MO2DEFAULT, SIMPLEUNPACK) and *)
(* hold no persisted data, no download has a .meta file, the hashing tasks  *)
(* of the downloads cache are not in the graph, and extra_hashes of the     *)
(* downloads cache holds an entry for every download.                      *)

\* the extensions of the archive plugins: plugins/archive/ holds zip.py
all_archive_plugins_extensions == {".zip"}

\* str.lower()
Lower(tok) == CASE tok = "Outer" -> "outer" [] tok = "Inner" -> "inner" [] OTHER -> tok

\* truncate_file_hash: the first 9 bytes of a 32-byte digest
truncate_file_hash(h) == <<"sha256[:9]", h[2]>>

\* the files of the downloads folder by path: Outer.zip, a second copy of it,
\* Inner.zip (the archive that Outer.zip holds) downloaded on its own, and
\* Side.zip, an archive of its own
ReadFile(fpath) ==
    IF fpath[2] \in {"Outer", "Outer (1)"} THEN [content |-> "outer", size |-> 30]
    ELSE IF fpath[2] = "Side" THEN [content |-> "side", size |-> 40]
    ELSE [content |-> "inner", size |-> 20]

\* what plugin.extract_all and os.walk give for an archive, by the archive's
\* content.  Outer holds Inner.zip, readme.txt, a copy of x.esp under
\* another name and an empty empty.txt; Inner holds data/x.esp; Side holds
\* data/x.esp, data/z.esp,
\* an empty data/empty.txt, the settings file data/cfg.json and the mesh
\* data/body.nif; Alt holds another data/z.esp and another data/body.nif.
\* No file is named like an extension (".zip"), the one case in which line
\* 134 is reached.
Extract(content) ==
    IF content = "outer"
    THEN << [fpath |-> <<"Inner", ".zip">>, content |-> "inner", size |-> 20],
            [fpath |-> <<"readme", ".txt">>, content |-> "r", size |-> 3],
            [fpath |-> <<"x_old", ".esp">>, content |-> "x", size |-> 10],
            [fpath |-> <<"empty", ".txt">>, content |-> "", size |-> 0] >>
    ELSE IF content = "inner"
    THEN << [fpath |-> <<"data/", "x", ".esp">>, content |-> "x", size |-> 10] >>
    ELSE IF content = "side"
    THEN << [fpath |-> <<"data/", "x", ".esp">>, content |-> "x", size |-> 10],
            [fpath |-> <<"data/", "z", ".esp">>, content |-> "z", size |-> 5],
            [fpath |-> <<"data/", "empty", ".txt">>, content |-> "", size |-> 0],
            [fpath |-> <<"data/", "cfg", ".json">>, content |-> "j1", size |-> 8],
            [fpath |-> <<"data/", "body", ".nif">>, content |-> "n1", size |-> 9] >>
    ELSE IF content = "alt"
    THEN << [fpath |-> <<"data/", "z", ".esp">>, content |-> "z0", size |-> 5],
            [fpath |-> <<"data/", "body", ".nif">>, content |-> "n2", size |-> 9] >>
    ELSE <<>>

\* Archive(archive_hash, archive_size, by, files)
Archive(arhash, arsize, by, files) ==
    [archive_hash |-> arhash, archive_size |-> arsize, by |-> by, files |-> files]

\* _hash_archive: the archives it appends to its list (ok is FALSE when an
\* assertion fails).
\* The test for a nested archive compares os.path.split(fpath)[1].lower(),
\* the whole file name, with the plugins' extensions; archive_plugin_for
\* then looks the file's extension up.
RECURSIVE hash_archive(_, _, _, _)
hash_archive(by, content, arhash, arsize) ==
    LET files == Extract(content)
        FileInArchive(f) ==
            [file_hash |-> truncate_file_hash(calculate_file_hash(f.content)),
             file_size |-> f.size,
             intra_path |-> [i \in 1..Len(f.fpath) |-> Lower(f.fpath[i])]]
        ar == Archive(arhash, arsize, by, [i \in 1..Len(files) |-> FileInArchive(files[i])])
        \* os.path.split(fpath)[1].lower() in pluginexts
        IsNested(f) ==
            /\ f.fpath[Len(f.fpath)] = ""
            /\ Lower(f.fpath[Len(f.fpath) - 1]) \in all_archive_plugins_extensions
        \* archive_plugin_for(fpath) is not None
        HasPlugin(f) == Lower(f.fpath[Len(f.fpath)]) \in all_archive_plugins_extensions
        RECURSIVE Walk(_, _)
        Walk(acc, i) ==
            IF i > Len(files) THEN [ok |-> TRUE, archives |-> acc]
            ELSE IF ~IsNested(files[i]) THEN Walk(acc, i + 1)
            ELSE IF ~HasPlugin(files[i]) THEN [ok |-> FALSE, archives |-> acc]
            ELSE LET sub == hash_archive(by, files[i].content,
                                         calculate_file_hash(files[i].content), files[i].size)
                 IN IF ~sub.ok THEN sub ELSE Walk(acc \o sub.archives, i + 1)
    IN Walk(<<ar>>, 1)

\* _append_archive on the archives in dict order; its assertion fails when
\* the digest is there already
append_archive(archives_by_hash, ar) ==
    IF \E i \in 1..Len(archives_by_hash) : archives_by_hash[i].archive_hash = ar.archive_hash
    THEN [ok |-> FALSE, archives |-> archives_by_hash]
    ELSE [ok |-> TRUE, archives |-> Append(archives_by_hash, ar)]

\* _archive_hashing_own_task_func that keeps only the archives just hashed
archive_hashing_own_Replace(RG, archives) ==
    [ok |-> TRUE, rgd |-> [RG EXCEPT !.archives_by_hash = archives, !.dirty_ar = TRUE]]

\* RootGitData._archive_hashing_own_task_func after its own assertions:
\* every archive of the list is appended, up to the first that is there
\* already
archive_hashing_own(RG, archives) ==
    LET RECURSIVE Go(_, _)
        Go(acc, i) ==
            IF ~acc.ok \/ i > Len(archives) THEN acc
            ELSE Go(append_archive(acc.archives, archives[i]), i + 1)
        merged == Go([ok |-> TRUE, archives |-> RG.archives_by_hash], 1)
    IN [ok |-> merged.ok,
        rgd |-> [RG EXCEPT !.archives_by_hash = merged.archives,
                           !.dirty_ar = IF merged.ok THEN TRUE ELSE @]]

\* AvailableFiles._single_archive_retrievers over
\* RootGitData.archived_file_by_hash: one ArchiveFileRetrieverHelper for
\* every (archive, file) pair of the index with that (truncated) digest, in
\* the order in which _append_archive added them
single_archive_retrievers(archives_by_hash, h) ==
    LET RECURSIVE Files(_, _, _)
        Files(ar, i, acc) ==
            IF i > Len(ar.files) THEN acc
            ELSE Files(ar, i + 1,
                       IF ar.files[i].file_hash = truncate_file_hash(h)
                       THEN Append(acc, [file_hash |-> h, file_size |-> ar.files[i].file_size,
                                         archive_hash |-> ar.archive_hash,
                                         archive_size |-> ar.archive_size,
                                         file_in_archive |-> ar.files[i]])
                       ELSE acc)
        RECURSIVE Archives(_, _)
        Archives(i, acc) ==
            IF i > Len(archives_by_hash) THEN acc
            ELSE Archives(i + 1, Files(archives_by_hash[i], 1, acc))
    IN Archives(1, <<>>)

\* ArchiveFileRetriever(base_retriever_param, singles)
ArchiveFileRetriever(filehash, filesize, singles) ==
    [file_hash |-> filehash, file_size |-> filesize, single_archive_retrievers |-> singles]

\* AvailableFiles._archived_file_retrievers_by_hash with _add_nested_archives
RECURSIVE archived_file_retrievers_by_hash(_, _)
archived_file_retrievers_by_hash(archives_by_hash, h) ==
    LET singles == single_archive_retrievers(archives_by_hash, h)
        \* the retrievers _add_nested_archives appends for r
        Nested(r) ==
            LET found2 == archived_file_retrievers_by_hash(archives_by_hash, r.archive_hash)
            IN << ArchiveFileRetriever(r.file_hash, r.file_size, <<r>>) >>
               \o [k \in 1..Len(found2) |->
                      ArchiveFileRetriever(found2[k].file_hash, found2[k].file_size,
                                           Append(found2[k].single_archive_retrievers, r))]
        RECURSIVE Out(_)
        Out(i) == IF i > Len(singles) THEN <<>> ELSE Nested(singles[i]) \o Out(i + 1)
    IN Out(1)

RootGitName(n) == <<"summon.rootgit.", n>>
AvailableName(n) == <<"summon.available.", n>>
FolderCacheName(cache, n) == <<"summon.foldercache.", cache, n>>

LOADAROWNTASKNAME == RootGitName("ownloadar")
LOADFOOWNTASKNAME == RootGitName("ownloadfo")

\* RootGitData.ready_to_start_hashing_task_name()
ready_to_start_hashing_task_name == LOADAROWNTASKNAME

\* RootGitData.archives_ready_task_name()
archives_ready_task_name == LOADAROWNTASKNAME

\* RootGitData.ready_to_start_adding_file_origins_task_name()
ready_to_start_adding_file_origins_task_name == LOADFOOWNTASKNAME

FolderCacheTag(cache, t) == <<"summon.foldercache.", cache, t>>

ArchivesTags ==
    { <<"summon.rootgit._archives_by_hash">>, <<"summon.rootgit._archived_files_by_hash">>,
      <<"summon.rootgit._archived_files_by_name">> }

\* FolderCache.start_tasks as its clients see it: the load task, the owner
\* task that publishes _files_by_path and the reconcile task, which is
\* ready_task_name(); the scan and hash tasks in between are those of
\* start_tasks above
FolderCache_start_tasks(cache) ==
    << Call("add_task", << Task(FolderCacheName(cache, "load"), "work", <<>>, <<>>, NoW) >>),
       Call("add_task",
            << OwnTask(FolderCacheName(cache, "ownload"), "calls", <<>>,
                       << FolderCacheName(cache, "load") >>, NoW,
                       TaskDataDependencies({}, {FolderCacheTag(cache, "reconciled()")},
                                            {FolderCacheTag(cache, "_files_by_path")})) >>),
       Call("add_task",
            << OwnTask(FolderCacheName(cache, "reconcile"), "calls", <<>>,
                       << FolderCacheName(cache, "ownload"),
                          FolderCacheName(cache, "ownscan.") \o <<"*">>,
                          FolderCacheName(cache, "ownhash.") \o <<"*">> >>, NoW,
                       TaskDataDependencies({FolderCacheTag(cache, "_files_by_path")}, {},
                                            {FolderCacheTag(cache, "reconciled()"),
                                             FolderCacheTag(cache, "ready()")})) >>) >>

\* file_origin_plugins(): the plugins under plugins/fileorigin
file_origin_plugins == << [name |-> "NEXUS"] >>

\* all_arinstaller_plugins(): the plugins under plugins/arinstaller, in file
\* order, each with whether extra_data_factory() returns a factory
all_arinstaller_plugins ==
    << [name |-> "FOMOD", extra_data_factory |-> TRUE],
       [name |-> "BAIN", extra_data_factory |-> FALSE],
       [name |-> "MO2DEFAULT", extra_data_factory |-> FALSE],
       [name |-> "SIMPLEUNPACK", extra_data_factory |-> FALSE] >>

\* the load task and the owner task of one plugin's persisted data
LoadPluginTasks(load, ownload, f, plugins) ==
    LET RECURSIVE Of(_)
        Of(i) ==
            IF i > Len(plugins) THEN <<>>
            ELSE << Call("add_task",
                         << Task(<<"summon.rootgit.", load, plugins[i].name>>, "work", <<>>,
                                 <<>>, NoW) >>),
                    Call("add_task",
                         << OwnTask(<<"summon.rootgit.", ownload, plugins[i].name>>, f, <<>>,
                                    << <<"summon.rootgit.", load, plugins[i].name>> >>,
                                    NoW, NoDD) >>) >> \o Of(i + 1)
    IN Of(1)

\* a pattern that no load task of an installer plugin matches
loadarinstowntasknamepattern_NoMatch == <<"summon.rootgit.", "loadarinst.none.", "*">>

\* RootGitData.start_tasks, line 491
loadarinstowntasknamepattern == <<"summon.rootgit.", "loadarinst.", "*">>

\* RootGitData.start_tasks: known is what the known-archives file holds
RootGitData_start_tasks(known) ==
    << Call("add_task", << Task(RootGitName("loadtan"), "work", <<>>, <<>>, NoW) >>) >>
    \o LoadPluginTasks("loadfo.", "ownloadfo.", "_load_own_fo_plugin_data_task_func",
                       file_origin_plugins)
    \o LoadPluginTasks("loadarinst.", "ownloadarinst.",
                       "_load_own_arinst_plugin_data_task_func",
                       SelectSeq(all_arinstaller_plugins,
                                 LAMBDA plugin : plugin.extra_data_factory))
    \o
    << Call("add_task", << Task(RootGitName("loadar"), "_load_archives_task_func", known,
                                <<>>, NoW) >>),
       Call("add_task",
            << OwnTask(LOADAROWNTASKNAME, "_load_archives_own_task_func", <<>>,
                       << RootGitName("loadar"), loadarinstowntasknamepattern >>,
                       NoW,
                       TaskDataDependencies({}, {<<"summon.rootgit.done_hashing()">>},
                                            ArchivesTags)) >>),
       Call("add_task",
            << OwnTask(LOADFOOWNTASKNAME, "_load_tentative_names_own_task_func", <<>>,
                       << RootGitName("loadtan"), <<"summon.rootgit.", "ownloadfo.", "*">> >>,
                       NoW,
                       TaskDataDependencies({}, {}, {<<"summon.rootgit._tentative_archive_names">>})) >>) >>

\* the hash-mappings owner task waiting for the downloads cache only
hashmappingsowntask_DownloadsOnly(downloads) ==
    OwnTask(AvailableName("ownhashmappings"), "_hash_mappings_own_task_func", downloads,
            << FolderCacheName("downloads.", "reconcile") >>, NoW, NoDD)

\* AvailableFiles.start_tasks, lines 137-147: the hash-mappings owner task
hashmappingsowntask(downloads) ==
    OwnTask(AvailableName("ownhashmappings"), "_hash_mappings_own_task_func", downloads,
            << FolderCacheName("downloads.", "reconcile"),
               ready_to_start_adding_file_origins_task_name >>, NoW, NoDD)

\* AvailableFiles.start_tasks: downloads is _downloads_cache.all_files()
AvailableFiles_start_tasks(downloads, known) ==
    FolderCache_start_tasks("downloads.")
    \o FolderCache_start_tasks("github.")
    \o RootGitData_start_tasks(known)
    \o << Call("add_task",
               << OwnTask(AvailableName("ownstarthashing"), "_start_hashing_own_task_func",
                          downloads,
                          << FolderCacheName("downloads.", "reconcile"),
                             ready_to_start_hashing_task_name >>, NoW,
                          TaskDataDependencies(
                              {FolderCacheTag("downloads.", "_files_by_path"),
                               <<"summon.rootgit._archives_by_hash">>},
                              {}, {<<"summon.available.start_hashing()">>})) >>),
          Call("add_task",
               << OwnTask(AvailableName("ownstartfileorigins"), "_start_origins_own_task_func",
                          downloads,
                          << FolderCacheName("downloads.", "reconcile") >>, NoW,
                          TaskDataDependencies(
                              {FolderCacheTag("downloads.", "_files_by_path")},
                              {}, {<<"summon.available.start_origins()">>})) >>),
          Call("add_task", << hashmappingsowntask(downloads) >>),
          Call("add_task", << TaskPlaceholder(AvailableName("ownready")) >>) >>

\* RootGitData.start_hashing_archive after its assertion: the calls it makes
start_hashing_archive(by, ar) ==
    << Call("add_task",
            << Task(<<"summon.rootgit.", "hash.">> \o ar.file_path, "_archive_hashing_task_func",
                    [by |-> by, arpath |-> ar.file_path, arhash |-> ar.file_hash,
                     arsize |-> ar.file_size],
                    <<>>, NoW) >>),
       Call("add_task",
            << OwnTask(<<"summon.rootgit.", "ownhash.">> \o ar.file_path,
                       "_archive_hashing_own_task_func", <<>>,
                       << <<"summon.rootgit.", "hash.">> \o ar.file_path >>, NoW,
                       TaskDataDependencies(ArchivesTags, {<<"summon.rootgit.done_hashing()">>},
                                            {})) >>) >>

\* start_done_hashing_task that waits for the loaded index only
start_done_hashing_task_NoFanIn ==
    << Call("add_task",
            << OwnTask(RootGitName("donehashing"), "_done_hashing_own_task_func", <<>>,
                       << LOADAROWNTASKNAME >>, NoW,
                       TaskDataDependencies(ArchivesTags, {},
                                            {<<"summon.rootgit.done_hashing()">>})) >>) >>

\* RootGitData.start_done_hashing_task after its assertion
start_done_hashing_task ==
    << Call("add_task",
            << OwnTask(RootGitName("donehashing"), "_done_hashing_own_task_func", <<>>,
                       << LOADAROWNTASKNAME, <<"summon.rootgit.", "ownhash.", "*">> >>, NoW,
                       TaskDataDependencies(ArchivesTags, {},
                                            {<<"summon.rootgit.done_hashing()">>})) >>) >>

----------------------------------------------------------------------------
(* Owner task functions                                                    *)

\* The calls an owner task function makes on Parallel while it runs (cur is
\* _current_task_node); stops at the first call that raises.  repl records,
\* for every replace_task_placeholder call, the placeholder's children and
\* their waiting counts before and after the call.
ExecCalls(P, calls, cur) ==
    LET RECURSIVE Go(_, _, _)
        Replaced(Q, Q1, t, kids, repl, i) ==
            Go(Q1,
               Append(repl,
                   [name |-> t.name,
                    valid |-> t.name \in Q.pending_task_nodes
                              /\ Q.all_task_nodes[t.name].task.kind = "TaskPlaceholder",
                    ok |-> Q1.err = "",
                    kids |-> kids,
                    before |-> [k \in kids |-> Q.all_task_nodes[k].waiting_for_n_deps],
                    after |-> [k \in kids |-> Q1.all_task_nodes[k].waiting_for_n_deps],
                    newkids |-> IF t.name \in DOMAIN Q1.all_task_nodes
                                THEN Range(Q1.all_task_nodes[t.name].children)
                                ELSE {},
                    depsdone |-> \A j \in 1..Len(t.dependencies) :
                                    IsPattern(t.dependencies[j])
                                    \/ t.dependencies[j] \in DOMAIN Q.done_task_nodes,
                    inpattern |-> \E j \in 1..Len(Q.pending_patterns) :
                                    StartsWith(t.name, Q.pending_patterns[j][1])]),
               i + 1)
        Go(Q, repl, i) ==
            IF i > Len(calls) \/ Q.err # "" THEN [par |-> Q, repl |-> repl]
            ELSE IF calls[i].op = "add_task"
            THEN Go(add_task(Q, calls[i].tasks[1], cur), repl, i + 1)
            ELSE IF calls[i].op = "add_tasks"
            THEN Go(add_tasks(Q, calls[i].tasks, cur), repl, i + 1)
            ELSE Replaced(Q, replace_task_placeholder(Q, calls[i].tasks[1], cur),
                          calls[i].tasks[1],
                          IF calls[i].tasks[1].name \in DOMAIN Q.all_task_nodes
                          THEN Range(Q.all_task_nodes[calls[i].tasks[1].name].children)
                          ELSE {},
                          repl, i)
    IN Go(P, <<>>, 1)

\* _own_calc_hash_task_func that records the file for reconcile only
own_calc_hash_ScannedOnly(FC, f) ==
    [FC EXCEPT !.scannedfiles = (f.file_path :> f) @@ @]

\* FolderCache._own_calc_hash_task_func after its assertions: f is the
\* FileOnDisk the hash task returned
own_calc_hash(FC, f) ==
    [FC EXCEPT !.scannedfiles = (f.file_path :> f) @@ @,
               !.files_by_path = (f.file_path :> f) @@ @]

\* _load_files_own_task_func, lines 761-766: the by-digest index built from
\* the loaded map; the list of a digest holds one entry for each path
index_by_hash(filesbypath) ==
    [h \in {filesbypath[fpath].file_hash : fpath \in DOMAIN filesbypath} |->
        {filesbypath[fpath] :
            fpath \in {q \in DOMAIN filesbypath : filesbypath[q].file_hash = h}}]

\* FolderCache.file_by_hash: the entries _files_by_hash.get(h) returns, none
\* when it returns None
file_by_hash(FC, h) ==
    IF h \in DOMAIN FC.files_by_hash THEN FC.files_by_hash[h] ELSE {}

\* FolderCache.all_files()
all_files(FC) == {FC.files_by_path[fpath] : fpath \in DOMAIN FC.files_by_path}

\* _own_reconcile_task_func that drops nothing
own_reconcile_KeepAll(FC) == [FC EXCEPT !.state = @ + 2]

\* FolderCache._own_reconcile_task_func: the cache keeps the files that were
\* scanned
own_reconcile(FC) ==
    [FC EXCEPT !.state = @ + 2,
               !.files_by_path = [fpath \in DOMAIN @ \cap DOMAIN FC.scannedfiles |-> @[fpath]]]

\* the plugins start_hashing_archive counts: those with an extra-data factory
NArinstFactories ==
    Len(SelectSeq(all_arinstaller_plugins, LAMBDA plg : plg.extra_data_factory))

\* the owner task functions of RootGitData and AvailableFiles: the scheduler
\* and the RootGitData object afterwards (par.err # "" when the function
\* raised)
RootGitOwnTaskFunc(P, RG, task, params) ==
    LET f == task.f
        cur == task.name
        res(Q, RGn) == [par |-> Q, rgd |-> RGn]
        Merged(m) == IF m.ok THEN res(P, m.rgd) ELSE res(Raise(P, "assert260"), m.rgd)
        \* the downloads _start_hashing_own_task_func asks to hash
        tohash == SelectSeq(task.param, LAMBDA ar :
                      /\ ar.file_path[Len(ar.file_path)] # ".meta"
                      /\ \A i \in 1..Len(RG.archives_by_hash) :
                             RG.archives_by_hash[i].archive_hash # ar.file_hash
                      /\ ar.file_path[Len(ar.file_path)] \in all_archive_plugins_extensions)
        RECURSIVE HashCalls(_)
        HashCalls(i) == IF i > Len(tohash) THEN <<>>
                        ELSE start_hashing_archive("me", tohash[i]) \o HashCalls(i + 1)
    IN IF f = "_load_own_fo_plugin_data_task_func"
       THEN IF RG.fo_is_ready # 0 THEN res(Raise(P, "assert843"), RG) ELSE res(P, RG)
       ELSE IF f = "_load_own_arinst_plugin_data_task_func"
       THEN res(P, [RG EXCEPT !.n_ready_arinst_plugins = @ + 1])
       ELSE IF f = "_hash_mappings_own_task_func"
       \* task.param stands for _downloads_cache.extra_hashes: add_hash_mappings
       \* is called once for each download that was hashed in this run
       THEN IF Len(task.param) > 0 /\ RG.fo_is_ready # 1 THEN res(Raise(P, "assert599"), RG)
            ELSE res(P, RG)
       ELSE IF f = "_load_archives_own_task_func"
       THEN IF RG.ar_is_ready # 0 THEN res(Raise(P, "assert744"), RG)
            ELSE res(P, [RG EXCEPT !.archives_by_hash = params[1], !.ar_is_ready = 1])
       ELSE IF f = "_load_tentative_names_own_task_func"
       THEN IF RG.fo_is_ready # 0 THEN res(Raise(P, "assert833"), RG)
            ELSE res(P, [RG EXCEPT !.fo_is_ready = 1])
       ELSE IF f = "_start_hashing_own_task_func"
       THEN IF Len(task.param) > 0 /\ RG.ar_is_ready < 1 THEN res(Raise(P, "assert673"), RG)
            ELSE IF /\ Len(tohash) > 0
                    /\ \/ RG.ar_is_ready # 1
                       \/ RG.n_ready_arinst_plugins # NArinstFactories
            THEN res(Raise(P, "assert562"), RG)
            ELSE res(ExecCalls(P, HashCalls(1), cur).par, RG)
       ELSE IF f = "_start_origins_own_task_func"
       THEN res(ExecCalls(P,
                    << Call("add_task", << Task(AvailableName("fileorigins"), "work", <<>>,
                                                <<>>, NoW) >>),
                       Call("add_task",
                            << OwnTask(AvailableName("ownfileorigins"),
                                       "_file_origins_own_task_func", <<>>,
                                       << AvailableName("fileorigins"),
                                          ready_to_start_adding_file_origins_task_name,
                                          archives_ready_task_name >>, NoW,
                                       TaskDataDependencies(
                                           {<<"summon.rootgit._tentative_archive_names">>,
                                            <<"summon.rootgit._archives_by_hash">>,
                                            <<"summon.available.start_origins()">>},
                                           {}, {<<"summon.available.file_origins()">>})) >>) >>,
                    cur).par, RG)
       ELSE IF f = "_file_origins_own_task_func"
       THEN IF RG.fo_is_ready # 1 THEN res(Raise(P, "assert639"), RG)
            ELSE IF RG.ar_is_ready # 1 THEN res(Raise(P, "assert622"), [RG EXCEPT !.fo_is_ready = 2])
            ELSE res(ExecCalls(P,
                         start_done_hashing_task
                         \o << Call("replace",
                                    << OwnTask(AvailableName("ownready"), "calls", <<>>,
                                               << RootGitName("donehashing"),
                                                  FolderCacheName("github.", "reconcile"),
                                                  AvailableName("ownhashmappings") >>,
                                               NoW, NoDD) >>) >>,
                         cur).par,
                     [RG EXCEPT !.fo_is_ready = 2])
       ELSE IF f = "_archive_hashing_own_task_func"
       THEN IF RG.ar_is_ready # 1 THEN res(Raise(P, "assert767"), RG)
            ELSE Merged(archive_hashing_own(RG, params[1]))
       ELSE \* _done_hashing_own_task_func
            IF RG.ar_is_ready # 1 THEN res(Raise(P, "assert796"), RG)
            ELSE res(IF RG.dirty_ar
                     THEN ExecCalls(P, << Call("add_task",
                                               << Task(RootGitName("savear"), "work", <<>>,
                                                       <<>>, NoW) >>) >>, cur).par
                     ELSE P,
                     [RG EXCEPT !.ar_is_ready = 2])

\* SharedReturn(item) in process p: the region, named after the task that
\* made it, is registered in the pool of the process
register(pools, p, names) == [pools EXCEPT !.shareds[p] = @ \o names]

make_shared_return_param(name, p) == [shm |-> name, sender |-> p]

\* done_with closing the region without forgetting it
done_with_Keep(pools, p, name) ==
    [pools EXCEPT !.closed = Append(@, <<p, name, "done_with">>)]

\* _PoolOfSharedReturns.done_with for a region the pool holds: closed and
\* forgotten
done_with(pools, p, name) ==
    [pools EXCEPT !.shareds[p] = SelectSeq(@, LAMBDA n : n # name),
                  !.closed = Append(@, <<p, name, "done_with">>)]

\* _PoolOfSharedReturns.cleanup, when _proc_func leaves its loop
cleanup(pools, p) ==
    [pools EXCEPT !.shareds[p] = <<>>,
                  !.closed = @ \o [i \in 1..Len(pools.shareds[p]) |->
                                      <<p, pools.shareds[p][i], "cleanup">>]]

\* Parallel.received_shared_return: the region is read and its sender is
\* notified
received_shared_return(P, sharedparam) == [P EXCEPT !.shm_read = Append(@, sharedparam)]

\* Parallel._notify_sender_shm_done for the regions read since `before`
notify_sender_shm_done(iq, before, after) ==
    [i \in DOMAIN iq |->
        iq[i] \o [k \in 1..Len(SelectSeq(SubSeq(after, Len(before) + 1, Len(after)),
                                         LAMBDA sp : sp.sender = i)) |->
                     [kind |-> "release",
                      shm |-> SelectSeq(SubSeq(after, Len(before) + 1, Len(after)),
                                        LAMBDA sp : sp.sender = i)[k].shm]]]

\* task.f(task.param, *params) of an owner task: the scheduler, the folder
\* cache and the archive index afterwards (par.err # "" when the function
\* raised) and its result
OwnTaskFunc(P, FC, RG, task, params) ==
    LET f == task.f
        cur == task.name
        res(Q, FCn, repl, out) ==
            [par |-> Q, fc |-> FCn, rgd |-> RG, repl |-> repl, out |-> out]
        Called(r) == res(r.par, FC, r.repl, "none")
        RootGit(r) == [par |-> r.par, fc |-> FC, rgd |-> r.rgd, repl |-> <<>>, out |-> "none"]
        \* the [hash, ownhash] pairs, then the [scan, ownscan] pairs
        ScanCalls(tocache, sdout) ==
            [i \in 1..Len(sdout.requested_files) |->
                [op |-> "add_tasks", tasks |-> HashTaskPair(sdout.requested_files[i])]]
            \o [i \in 1..Len(sdout.requested_dirs) |->
                [op |-> "add_tasks",
                 tasks |-> ScanTaskPair(
                     FolderToCache(sdout.requested_dirs[i], tocache.exdirs),
                     DefaultTaskWeight, 10)]]
    IN IF f = "_load_files_own_task_func"
       THEN IF FC.state % 2 # 0 THEN res(Raise(P, "assert754"), FC, <<>>, "none")
            ELSE res(P, [FC EXCEPT !.state = @ + 1, !.files_by_path = params[1],
                                   !.files_by_hash = index_by_hash(params[1])],
                     <<>>, "pubparam")
       ELSE IF f = "_own_calc_hash_task_func"
       THEN IF FC.state % 4 # 1 THEN res(Raise(P, "assert795"), FC, <<>>, "none")
            ELSE res(P, own_calc_hash(FC, params[1]), <<>>, "none")
       ELSE IF f = "_scan_folder_own_task_func"
       THEN IF FC.state % 4 # 1 THEN res(Raise(P, "assert890"), FC, <<>>, "none")
            ELSE IF DOMAIN FC.scannedfiles \cap DOMAIN params[1].sdout.scanned_files # {}
            THEN res(Raise(P, "assert894"), FC, <<>>, "none")
            ELSE res(ExecCalls(P, ScanCalls(params[1].tocache, params[1].sdout), cur).par,
                     [FC EXCEPT !.scannedfiles = params[1].sdout.scanned_files @@ @],
                     <<>>, "none")
       ELSE IF f = "_own_reconcile_task_func"
       THEN IF FC.state % 4 # 1 THEN res(Raise(P, "assert827"), FC, <<>>, "none")
            ELSE res(ExecCalls(P, << [op |-> "add_task",
                                      tasks |-> << Task(TaskName("save", <<>>), "_save_files_task_func",
                                                        <<>>, <<>>, NoW) >>] >>, cur).par,
                     own_reconcile(FC), <<>>, "none")
       ELSE IF f = "calls" THEN Called(ExecCalls(P, task.param, cur))
       ELSE IF f = "recv" THEN res(received_shared_return(P, params[1]), FC, <<>>, "none")
       ELSE RootGit(RootGitOwnTaskFunc(P, RG, task, params))

\* named dependencies of the task of node name that are not Done
UnmetDependencies(P, name) ==
    LET deps == P.all_task_nodes[name].task.dependencies
    IN {deps[i] : i \in {j \in 1..Len(deps) :
            ~IsPattern(deps[j])
            /\ (deps[j] \notin DOMAIN P.all_task_nodes
                \/ P.all_task_nodes[deps[j]].state # Done)}}

\* tasks matching a pattern dependency of the task of node name that are not Done
UnmetPatternMatches(P, name) ==
    LET deps == P.all_task_nodes[name].task.dependencies
    IN {n \in DOMAIN P.all_task_nodes \ {name} :
            P.all_task_nodes[n].state # Done
            /\ \E i \in 1..Len(deps) :
                   IsPattern(deps[i]) /\ StartsWith(n, PatternPrefix(deps[i]))}

\* Parallel._run_own_task
run_own_task(P, FC, RG) ==
    LET res4(Pn, FCn, RGn, name, invoked, repl, inner) ==
            [par |-> Pn, fc |-> FCn, rgd |-> RGn, name |-> name, invoked |-> invoked,
             repl |-> repl, inner |-> inner]
        res(Pn, FCn, name, invoked, repl, inner) ==
            res4(Pn, FCn, RG, name, invoked, repl, inner)
        \* lines 954-982, after the task's function has returned or raised
        Ran(r, name) ==
            IF r.par.err # ""
            THEN res4(Raise(r.par, "Exception in user OwnTask.run()"), r.fc, r.rgd, name, TRUE,
                      r.repl, r.par.err)
            ELSE IF r.par.all_task_nodes[name].state # Ready
            THEN res4(Raise(r.par, "assert974"), r.fc, r.rgd, name, TRUE, r.repl, "")
            ELSE IF name \notin r.par.ready_own_task_nodes
            THEN res4(Raise(r.par, "assert975"), r.fc, r.rgd, name, TRUE, r.repl, "")
            ELSE res4(mark_as_done_and_handle_children(
                          [r.par EXCEPT !.ready_own_task_nodes = @ \ {name}], name, r.out),
                      r.fc, r.rgd, name, TRUE, r.repl, "")
        \* lines 919-952, with the node popped from the heap
        Popped(name, heap) ==
            LET ot == P.all_task_nodes[name]
                dd == ot.task.data_dependencies
                P0 == [P EXCEPT !.ready_own_task_nodes_heap = heap]
                P1 == [P0 EXCEPT !.data_dependencies = @ \cup dd.provided_tags]
                named == SelectSeq(ot.parents, LAMBDA x : x.kind # "pattern")
            IN IF ot.task.kind # "OwnTask"
               THEN res(Raise(P0, "assert919"), FC, name, FALSE, <<>>, "")
               ELSE IF ~(dd.required_tags \subseteq P.data_dependencies)
               THEN res(Raise(P0, "assert924"), FC, name, FALSE, <<>>, "")
               ELSE IF dd.required_not_tags \cap P.data_dependencies # {}
               THEN res(Raise(P0, "assert926"), FC, name, FALSE, <<>>, "")
               ELSE IF \E i \in 1..Len(named) : named[i].name \notin DOMAIN P.done_task_nodes
               THEN res(Raise(P1, "KeyError934"), FC, name, FALSE, <<>>, "")
               ELSE IF Len(named) > 3
               THEN res(Raise(P1, "assert940"), FC, name, FALSE, <<>>, "")
               ELSE Ran(OwnTaskFunc(P1, FC, RG, ot.task,
                                    [i \in 1..Len(named) |-> P.done_task_nodes[named[i].name]]),
                        name)
        Pop(popped) == Popped(popped.item, popped.heap)
    IN Pop(heappop(P.ready_own_task_nodes_heap, P.all_task_nodes))

----------------------------------------------------------------------------
(* Worker task functions                                                   *)

\* what task.f returns in a worker process; split tells whether the scan had
\* taken more than 0.5 s when it met the subfolder
TaskOut(task, fstat, split) ==
    IF task.f = "_scan_folder_task_func"
    THEN [tocache |-> task.param,
          sdout |-> scan_dir(task.param, task.param.folder, read_dict_of_files(fstat), split)]
    ELSE IF task.f = "_calc_hash_task_func"
    THEN FileOnDisk(calculate_file_hash(DiskStat(task.param.fpath).content),
                    task.param.tstamp, task.param.fpath, task.param.fsize)
    ELSE IF task.f = "_load_files_task_func" THEN read_dict_of_files(fstat)
    ELSE IF task.f = "_load_archives_task_func" THEN task.param
    ELSE IF task.f = "_archive_hashing_task_func"
    THEN hash_archive(task.param.by, ReadFile(task.param.arpath).content,
                      task.param.arhash, task.param.arsize).archives
    ELSE "out"

\* task functions that can raise: reading a file to hash it, and "mayfail"
MayRaise(task) == task.f \in {"mayfail", "_calc_hash_task_func", "_archive_hashing_task_func"}

----------------------------------------------------------------------------
(* State after construction and __enter__: the worker processes and the    *)
(* logging thread have been created and started                            *)

Parallel(nproc) ==
    [nproc |-> nproc, err |-> "",
     all_task_nodes |-> <<>>, pending_task_nodes |-> {},
     ready_task_nodes |-> {}, ready_task_nodes_heap |-> <<>>,
     ready_own_task_nodes |-> {}, ready_own_task_nodes_heap |-> <<>>,
     running_task_nodes |-> <<>>, done_task_nodes |-> <<>>,
     pending_patterns |-> <<>>,
     process_requests |-> [i \in 0..(nproc - 1) |-> <<>>],
     procrunningconfirmed |-> [i \in 0..(nproc - 1) |-> FALSE],
     data_dependencies |-> {}, shm_read |-> <<>>,
     shutting_down |-> FALSE, has_joined |-> FALSE,
     \* locals of run(), join_all() and __exit__()
     ran |-> FALSE, waited |-> FALSE, force |-> FALSE, osexit |-> FALSE,
     njoined |-> 0, exitcode |-> -1]

InitAll(program, nproc, query) ==
    /\ prog = program
    /\ par = Parallel(nproc)
    /\ mainpc = "with"
    /\ inq = [i \in 0..(nproc - 1) |-> <<>>]
    /\ outq = <<>>
    /\ logq = <<>>
    /\ outlogq = <<>>
    /\ wstate = [i \in 0..(nproc - 1) |-> "init"]
    /\ logst = [state |-> 0, returned |-> FALSE]
    /\ fc = [state |-> 0, scannedfiles |-> <<>>, files_by_path |-> <<>>,
             files_by_hash |-> <<>>]
    /\ rgd = [ar_is_ready |-> 0, fo_is_ready |-> 0, archives_by_hash |-> <<>>,
              dirty_ar |-> FALSE, n_ready_arinst_plugins |-> 0]
    /\ io = query
    /\ hist = [invoked |-> <<>>, unmet |-> {}, patunmet |-> {}, repl |-> <<>>,
               inner |-> "", raised |-> {}, gotexc |-> FALSE,
               atexc |-> [done |-> {}, nbatches |-> 0], nbatches |-> 0,
               confirmedinjoin |-> FALSE, eolsent |-> FALSE, nonesent |-> FALSE,
               joinedatnone |-> 0, nput |-> 0, nputatnone |-> 0, nhandled |-> 0,
               nlate |-> 0]

\* the state after Parallel(nproc) and before run(): run_guess was not
\* started
InitWith(program, nproc) ==
    InitAll(program, nproc, [shareds |-> [i \in 0..(nproc - 1) |-> <<>>], closed |-> <<>>])

\* all sequences of 1..n distinct elements of U
SeqsUpTo(U, n) ==
    UNION {{s \in [1..k -> U] : \A i, j \in 1..k : i # j => s[i] # s[j]} : k \in 1..n}

NoFiles == [f \in {<<"r", "f1">>, <<"r", "s", "f2">>, <<"r", "s", "f3">>} |-> "never"]

----------------------------------------------------------------------------
(* The main thread: Parallel.run                                           *)


\* run() leaving _run_all_own_tasks after one pass although owner tasks are
\* still Ready
Advance_Once(pc, P) ==
    IF pc = "own0" THEN [pc |-> "sched1", par |-> P]
    ELSE IF pc = "own1" /\ P.ran THEN [pc |-> "sched2", par |-> P]
    ELSE IF pc \in {"own1", "check"}
    THEN [pc |-> IF is_all_done(log_stats(P)) THEN "finished" ELSE "wait",
          par |-> log_stats(P)]
    ELSE [pc |-> pc, par |-> P]

\* where run() is next after returning to the given point of its loop: the
\* loops of _run_all_own_tasks end when no owner task is ready, and the
\* bottom of the main loop logs the statistics and tests is_all_done()
RECURSIVE Advance(_, _)
Advance(pc, P) ==
    LET Checked(Q) == [pc |-> IF is_all_done(Q) THEN "finished" ELSE "wait", par |-> Q]
    IN IF pc \in {"own0", "own1"}
       THEN IF Cardinality(P.ready_own_task_nodes) # Len(P.ready_own_task_nodes_heap)
            THEN [pc |-> pc, par |-> Raise(P, "assert590")]
            ELSE IF P.ready_own_task_nodes # {} THEN [pc |-> pc, par |-> P]
            ELSE IF pc = "own0" THEN [pc |-> "sched1", par |-> P]
            ELSE IF P.ran THEN [pc |-> "sched2", par |-> P]
            ELSE Advance("check", P)
       ELSE IF pc = "check" THEN Checked(log_stats(P))
       ELSE [pc |-> pc, par |-> P]

\* an exception leaves run() and the with block: __exit__ is next
MainGoto(a) ==
    /\ par' = a.par
    /\ mainpc' = IF a.par.err # "" THEN "exit" ELSE a.pc

\* the client's calls made before run() (start_tasks), then run() up to its
\* first owner task or first pass of the main loop
Run ==
    /\ mainpc = "with"
    /\ LET Begin(P2) ==
               IF P2.err # "" THEN [pc |-> "exit", par |-> P2]
               ELSE IF P2.pending_task_nodes = {}
               THEN [pc |-> "exit", par |-> Raise(P2, "assert621")]
               ELSE Advance("own0", P2)
           Started(P1) ==
               IF P1.err # "" THEN Begin(P1) ELSE Begin(add_tasks(P1, prog.run, NoName))
       IN \E a \in {Started(ExecCalls(par, prog.pre, NoName).par)} : MainGoto(a)
    /\ UNCHANGED <<prog, inq, outq, logq, outlogq, wstate, logst, fc, rgd, io, hist>>

\* _run_all_own_tasks going on to the next task although the function of
\* the owner task raised
RunOwnTask_Swallow ==
    /\ mainpc \in {"own0", "own1"}
    /\ par.ready_own_task_nodes # {}
    /\ LET Ran(r) ==
           /\ \E a \in {Advance(mainpc, [r.par EXCEPT !.ran = TRUE, !.err = ""])} : MainGoto(a)
           /\ fc' = r.fc
           /\ rgd' = r.rgd
           /\ hist' = [hist EXCEPT
                  !.invoked = IF ~r.invoked THEN @
                              ELSE IF r.name \in DOMAIN @
                              THEN [@ EXCEPT ![r.name] = @ + 1]
                              ELSE @ @@ (r.name :> 1),
                  !.unmet = IF ~r.invoked THEN @
                            ELSE @ \cup {<<r.name, d>> : d \in UnmetDependencies(par, r.name)},
                  !.patunmet = IF ~r.invoked THEN @
                               ELSE @ \cup {<<r.name, n>> : n \in UnmetPatternMatches(par, r.name)},
                  !.repl = @ \o r.repl,
                  !.inner = IF r.inner # "" THEN r.inner ELSE @]
       IN \E r \in {run_own_task(par, fc, rgd)} : Ran(r)
    /\ UNCHANGED <<prog, inq, outq, logq, outlogq, wstate, logst, io>>

\* one iteration of the loop of _run_all_own_tasks
RunOwnTask ==
    /\ mainpc \in {"own0", "own1"}
    /\ par.ready_own_task_nodes # {}
    /\ LET Ran(r) ==
           /\ \E a \in {IF r.par.err # "" THEN [pc |-> "exit", par |-> r.par]
                        ELSE Advance(mainpc, [r.par EXCEPT !.ran = TRUE])} : MainGoto(a)
           /\ fc' = r.fc
           /\ inq' = notify_sender_shm_done(inq, par.shm_read, r.par.shm_read)
           /\ rgd' = r.rgd
           /\ hist' = [hist EXCEPT
                  !.invoked = IF ~r.invoked THEN @
                              ELSE IF r.name \in DOMAIN @
                              THEN [@ EXCEPT ![r.name] = @ + 1]
                              ELSE @ @@ (r.name :> 1),
                  !.unmet = IF ~r.invoked THEN @
                            ELSE @ \cup {<<r.name, d>> : d \in UnmetDependencies(par, r.name)},
                  !.patunmet = IF ~r.invoked THEN @
                               ELSE @ \cup {<<r.name, n>> : n \in UnmetPatternMatches(par, r.name)},
                  !.repl = @ \o r.repl,
                  !.inner = IF r.inner # "" THEN r.inner ELSE @]
       IN \E r \in {run_own_task(par, fc, rgd)} : Ran(r)
    /\ UNCHANGED <<prog, outq, logq, outlogq, wstate, logst, io>>

\* one call of _schedule_best_tasks from either scheduling loop of run()
ScheduleBestTasks ==
    /\ mainpc \in {"sched1", "sched2"}
    /\ LET Scheduled(r) ==
           IF r.par.err # ""
           THEN MainGoto([pc |-> "exit", par |-> r.par]) /\ UNCHANGED <<inq, hist>>
           ELSE IF r.ok
           THEN /\ MainGoto([pc |-> mainpc, par |-> r.par])
                /\ inq' = [inq EXCEPT ![r.pidx] =
                              Append(@, [kind |-> "tasks", batch |-> r.batch])]
                /\ hist' = [hist EXCEPT !.nbatches = @ + 1]
           ELSE /\ \E a \in {IF mainpc = "sched1"
                             THEN Advance("own1", [r.par EXCEPT !.ran = FALSE])
                             ELSE Advance("check", r.par)} : MainGoto(a)
                /\ UNCHANGED <<inq, hist>>
       IN \E r \in {schedule_best_tasks(par)} : Scheduled(r)
    /\ UNCHANGED <<prog, outq, logq, outlogq, wstate, logst, fc, rgd, io>>

\* run(): outq.get() returned ProcessStarted
RecvStarted ==
    /\ mainpc = "wait"
    /\ outq # <<>>
    /\ Head(outq).kind = "started"
    /\ outq' = Tail(outq)
    /\ MainGoto([pc |-> "sched1",
                 par |-> [par EXCEPT !.procrunningconfirmed[Head(outq).proc] = TRUE,
                                     !.waited = TRUE]])
    /\ UNCHANGED <<prog, inq, logq, outlogq, wstate, logst, fc, rgd, io, hist>>

\* run(): outq.get() returned the results of a batch
RecvResults ==
    /\ mainpc = "wait"
    /\ outq # <<>>
    /\ Head(outq).kind = "results"
    /\ outq' = Tail(outq)
    /\ LET got == Head(outq)
           P0 == [par EXCEPT !.waited = TRUE]
           Logged(P2) == [pc |-> IF is_all_done(P2) THEN "finished" ELSE "sched1", par |-> P2]
           Processed(P1) == IF P1.err # "" THEN Logged(P1) ELSE Logged(log_stats(P1))
       IN \E a \in {IF P0.process_requests[got.proc] = <<>>
                    THEN Logged(Raise(P0, "assert703"))
                    ELSE Processed(process_out_tasks(
                             [P0 EXCEPT !.process_requests[got.proc] = Tail(@)],
                             got.proc, got.outtasks))} : MainGoto(a)
    /\ UNCHANGED <<prog, inq, logq, outlogq, wstate, logst, fc, rgd, io, hist>>

\* shutdown that never kills: it always asks the processes to stop
shutdown_NoKill(P, force, ws, iq, lq) ==
    [par |-> [P EXCEPT !.shutting_down = TRUE],
     wstate |-> ws,
     inq |-> [i \in DOMAIN iq |-> Append(iq[i], [kind |-> "None"])],
     logq |-> Append(lq, "EndOfRegularLog")]

\* Parallel.shutdown: the processes, their queues and the log queue afterwards
shutdown(P, force, ws, iq, lq) ==
    [par |-> [P EXCEPT !.shutting_down = TRUE],
     wstate |-> IF force THEN [i \in DOMAIN ws |-> IF ws[i] = "exited" THEN "exited" ELSE "killed"]
                ELSE ws,
     inq |-> IF force THEN iq ELSE [i \in DOMAIN iq |-> Append(iq[i], [kind |-> "None"])],
     logq |-> Append(lq, "EndOfRegularLog")]

\* run(): outq.get() returned an exception of a worker task: forced
\* shutdown; join_all(True) is next, then os._exit(1)
RecvException ==
    /\ mainpc = "wait"
    /\ outq # <<>>
    /\ Head(outq).kind = "exc"
    /\ outq' = Tail(outq)
    /\ LET sh == shutdown(par, TRUE, wstate, inq, Append(logq, "rec")) IN
       /\ par' = [sh.par EXCEPT !.waited = TRUE, !.force = TRUE, !.osexit = TRUE]
       /\ wstate' = sh.wstate
       /\ inq' = sh.inq
       /\ logq' = Append(sh.logq, "rec")
    /\ mainpc' = "join_eol"
    /\ hist' = [hist EXCEPT !.gotexc = TRUE,
                            !.atexc = [done |-> DOMAIN par.done_task_nodes,
                                       nbatches |-> hist.nbatches],
                            !.eolsent = TRUE,
                            !.nput = @ + 2]
    /\ UNCHANGED <<prog, outlogq, logst, fc, rgd, io>>

\* run() after its main loop: StopSkipping and the statistics;
\* mltimer.stats["waiting"] exists only if run() has waited on outq
Epilogue ==
    /\ mainpc = "finished"
    /\ logq' = Append(Append(logq, "StopSkipping"), "rec")
    /\ hist' = [hist EXCEPT !.nput = @ + 1]
    /\ par' = IF par.waited THEN par ELSE Raise(par, "KeyError733")
    /\ mainpc' = "exit"
    /\ UNCHANGED <<prog, inq, outq, outlogq, wstate, logst, fc, rgd, io>>

----------------------------------------------------------------------------
(* The main thread: Parallel.__exit__, shutdown and join_all               *)

\* join_all goes on to join at once
AllConfirmed_NoWait(confirmed) == TRUE

\* line 1137: join_all(False) goes on to join once every process has confirmed
AllConfirmed(confirmed) == \A i \in DOMAIN confirmed : confirmed[i]

\* __exit__ up to the first blocking call of join_all
Exit ==
    /\ mainpc = "exit"
    /\ LET force == par.err # ""
           lq0 == IF force THEN Append(logq, "rec") ELSE logq
           sh == IF par.shutting_down
                 THEN [par |-> par, wstate |-> wstate, inq |-> inq, logq |-> lq0]
                 ELSE shutdown(par, force, wstate, inq, lq0)
           wait == ~force /\ ~AllConfirmed(par.procrunningconfirmed)
       IN /\ par' = [sh.par EXCEPT !.force = force]
          /\ wstate' = sh.wstate
          /\ inq' = sh.inq
          /\ logq' = IF wait THEN Append(sh.logq, "rec") ELSE sh.logq
          /\ mainpc' = IF wait THEN "join_confirm" ELSE "join_eol"
          /\ hist' = [hist EXCEPT !.eolsent = TRUE,
                                  !.nput = @ + (IF force THEN 1 ELSE 0)
                                             + (IF wait THEN 1 ELSE 0)]
    /\ UNCHANGED <<prog, outq, outlogq, logst, fc, rgd, io>>

\* join_all(False): one outq.get() of the loop that waits for confirmations
JoinAllGet ==
    /\ mainpc = "join_confirm"
    /\ outq # <<>>
    /\ outq' = Tail(outq)
    /\ LET got == Head(outq)
           P1 == IF got.kind = "started"
                 THEN [par EXCEPT !.procrunningconfirmed[got.proc] = TRUE] ELSE par
       IN /\ par' = P1
          /\ mainpc' = IF AllConfirmed(P1.procrunningconfirmed)
                       THEN "join_eol" ELSE "join_confirm"
    /\ hist' = [hist EXCEPT !.confirmedinjoin = TRUE]
    /\ UNCHANGED <<prog, inq, logq, outlogq, wstate, logst, fc, rgd, io>>

\* join_all: _out_logq.get(), after which the logging hook is set back
\* (an exception that brought main to __exit__ does not keep join_all from
\* going on; a failed assertion leaves __exit__)
JoinAllSync ==
    /\ mainpc = "join_eol"
    /\ outlogq # <<>>
    /\ outlogq' = Tail(outlogq)
    /\ IF Head(outlogq) # "None"
       THEN /\ par' = [Raise(par, "assert1137") EXCEPT !.exitcode = 1]
            /\ mainpc' = "exited"
       ELSE /\ par' = par
            /\ mainpc' = "join_procs"
    /\ UNCHANGED <<prog, inq, outq, logq, wstate, logst, fc, rgd, io, hist>>

\* join_all: _processes[i].join() returns; after the last one, _logq.put(None)
JoinProcess ==
    /\ mainpc = "join_procs"
    /\ wstate[par.njoined] \in {"exited", "killed"}
    /\ par' = [par EXCEPT !.njoined = @ + 1]
    /\ IF par.njoined + 1 = par.nproc
       THEN /\ logq' = Append(logq, "None")
            /\ mainpc' = "join_log"
            /\ hist' = [hist EXCEPT !.nonesent = TRUE,
                                    !.joinedatnone = par.njoined + 1,
                                    !.nputatnone = hist.nput]
       ELSE UNCHANGED <<logq, mainpc, hist>>
    /\ UNCHANGED <<prog, inq, outq, outlogq, wstate, logst, fc, rgd, io>>

\* join_all: _logthread.join() returns; then __exit__ returns (the exception,
\* if any, propagates) or run() calls os._exit(1)
JoinLogThread ==
    /\ mainpc = "join_log"
    /\ logst.returned
    /\ par' = [par EXCEPT !.has_joined = TRUE,
                          !.exitcode = IF par.osexit \/ par.err # "" THEN 1 ELSE 0]
    /\ mainpc' = "exited"
    /\ UNCHANGED <<prog, inq, outq, logq, outlogq, wstate, logst, fc, rgd, io, hist>>

----------------------------------------------------------------------------
(* Worker processes: _proc_func                                            *)

\* "Process started" and ProcessStarted
WorkerStart(p) ==
    /\ wstate[p] = "init"
    /\ wstate' = [wstate EXCEPT ![p] = "loop"]
    /\ logq' = Append(logq, "rec")
    /\ outq' = Append(outq, [kind |-> "started", proc |-> p])
    /\ hist' = [hist EXCEPT !.nput = @ + 1]
    /\ UNCHANGED <<prog, par, mainpc, inq, outlogq, logst, fc, rgd, io>>

\* inq.get() returned a batch: _process_nonown_tasks runs its tasks in order
\* until one raises (fail is its index, 0 if none does)
WorkerBatch(p) ==
    /\ wstate[p] = "loop"
    /\ inq[p] # <<>>
    /\ Head(inq[p]).kind = "tasks"
    /\ inq' = [inq EXCEPT ![p] = Tail(@)]
    /\ LET batch == Head(inq[p]).batch
           task(i) == par.all_task_nodes[batch[i]].task
       IN \E fail \in 0..Len(batch) :
          \E split \in BOOLEAN :
          /\ fail > 0 => MayRaise(task(fail))
          /\ LET ran == IF fail = 0 THEN batch ELSE SubSeq(batch, 1, fail)
             IN hist' = [hist EXCEPT
                    !.invoked = [n \in DOMAIN @ \cup Range(ran) |->
                                    (IF n \in DOMAIN @ THEN @[n] ELSE 0)
                                    + (IF n \in Range(ran) THEN 1 ELSE 0)],
                    !.unmet = @ \cup UNION {{<<n, d>> : d \in UnmetDependencies(par, n)} :
                                               n \in Range(ran)},
                    !.raised = IF fail = 0 THEN @ ELSE @ \cup {p},
                    !.nput = @ + 1]
          /\ \E pools \in {register(io, p,
                                    SelectSeq(IF fail = 0 THEN batch ELSE SubSeq(batch, 1, fail),
                                              LAMBDA n : par.all_task_nodes[n].task.f = "share"))} :
                 io' = IF fail = 0 THEN pools ELSE cleanup(pools, p)
          /\ IF fail = 0
             THEN /\ outq' = Append(outq, [kind |-> "results", proc |-> p,
                                           outtasks |-> [i \in 1..Len(batch) |->
                                               [name |-> batch[i],
                                                out |-> IF task(i).f = "share"
                                                        THEN make_shared_return_param(batch[i], p)
                                                        ELSE TaskOut(task(i), prog.fstat, split)]]])
                  /\ wstate' = wstate
             ELSE /\ outq' = Append(outq, [kind |-> "exc", proc |-> p])
                  /\ wstate' = [wstate EXCEPT ![p] = "exited"]
    /\ logq' = Append(logq, "rec")
    /\ UNCHANGED <<prog, par, mainpc, outlogq, logst, fc, rgd>>

\* inq.get() returned None: "exiting process"
WorkerStop(p) ==
    /\ wstate[p] = "loop"
    /\ inq[p] # <<>>
    /\ Head(inq[p]).kind = "None"
    /\ inq' = [inq EXCEPT ![p] = Tail(@)]
    /\ wstate' = [wstate EXCEPT ![p] = "exited"]
    /\ logq' = Append(logq, "rec")
    /\ hist' = [hist EXCEPT !.nput = @ + 1]
    /\ io' = cleanup(io, p)
    /\ UNCHANGED <<prog, par, mainpc, outq, outlogq, logst, fc, rgd>>

\* inq.get() returned the name of a region main is done with: it is closed
\* and forgotten; for a name the pool does not hold done_with raises
\* KeyError, which _proc_func reports to main before it exits
WorkerRelease(p) ==
    /\ wstate[p] = "loop"
    /\ inq[p] # <<>>
    /\ Head(inq[p]).kind = "release"
    /\ inq' = [inq EXCEPT ![p] = Tail(@)]
    /\ logq' = Append(logq, "rec")
    /\ IF \E i \in 1..Len(io.shareds[p]) : io.shareds[p][i] = Head(inq[p]).shm
       THEN /\ io' = done_with(io, p, Head(inq[p]).shm)
            /\ hist' = [hist EXCEPT !.nput = @ + 1]
            /\ UNCHANGED <<outq, wstate>>
       ELSE /\ io' = cleanup(io, p)
            /\ outq' = Append(outq, [kind |-> "exc", proc |-> p])
            /\ wstate' = [wstate EXCEPT ![p] = "exited"]
            /\ hist' = [hist EXCEPT !.nput = @ + 2, !.raised = @ \cup {p}]
    /\ UNCHANGED <<prog, par, mainpc, outlogq, logst, fc, rgd>>

----------------------------------------------------------------------------
(* Logging thread: _logging_thread_func with read_log_rec                  *)

\* the thread returns at the end-of-regular-log marker already
IsEndOfLog_AtMarker(record) == record \in {"None", "EndOfRegularLog"}

\* read_log_rec: the thread returns when it reads this
IsEndOfLog(record) == record = "None"

LogThreadRead ==
    /\ ~logst.returned
    /\ logq # <<>>
    /\ logq' = Tail(logq)
    /\ LET record == Head(logq) IN
       IF IsEndOfLog(record)
       THEN /\ logst' = [state |-> 2, returned |-> TRUE]
            /\ UNCHANGED <<outlogq, hist>>
       ELSE IF record = "EndOfRegularLog"
       THEN /\ logst' = [logst EXCEPT !.state = 1]
            /\ outlogq' = Append(outlogq, "None")
            /\ UNCHANGED hist
       ELSE IF record = "StopSkipping"
       THEN UNCHANGED <<logst, outlogq, hist>>
       ELSE /\ hist' = [hist EXCEPT !.nhandled = @ + 1,
                                    !.nlate = @ + (IF logst.state = 1 THEN 1 ELSE 0)]
            /\ UNCHANGED <<logst, outlogq>>
    /\ UNCHANGED <<prog, par, mainpc, inq, outq, wstate, fc, rgd, io>>

----------------------------------------------------------------------------
(* Client programs                                                         *)


\* worker tasks a and b (b after a, may raise); owner task A adds worker
\* tasks p1, p2 and p3 while it runs; owner task T waits for "p*"; owner task Z
\* waits for T
CoreTasks ==
    { Task(<<"a">>, "work", <<>>, <<>>, NoW),
      Task(<<"b">>, "mayfail", <<>>, << <<"a">> >>, NoW),
      OwnTask(<<"A">>, "calls",
              << Call("add_tasks", << Task(<<"p", "1">>, "work", <<>>, <<>>, NoW),
                                      Task(<<"p", "2">>, "work", <<>>, <<>>, 50),
                                      Task(<<"p", "3">>, "work", <<>>, <<>>, NoW) >>) >>,
              <<>>, NoW, NoDD),
      OwnTask(<<"T">>, "calls", <<>>, << <<"p", "*">> >>, NoW, NoDD),
      OwnTask(<<"Z">>, "calls", <<>>, << <<"T">> >>, NoW, NoDD) }

\* X provides tag x; Y requires x to be absent, R and Q require it (R runs
\* after X, Q does not); V waits for Y; worker task a may raise
TagTasks ==
    { OwnTask(<<"X">>, "calls", <<>>, <<>>, NoW, TaskDataDependencies({}, {}, {"x"})),
      OwnTask(<<"Y">>, "calls", <<>>, <<>>, NoW, TaskDataDependencies({}, {"x"}, {})),
      OwnTask(<<"V">>, "calls", <<>>, << <<"Y">> >>, NoW, NoDD),
      OwnTask(<<"R">>, "calls", <<>>, << <<"X">> >>, NoW, TaskDataDependencies({"x"}, {}, {})),
      OwnTask(<<"Q">>, "calls", <<>>, <<>>, NoW, TaskDataDependencies({"x"}, {}, {})),
      Task(<<"a">>, "mayfail", <<>>, <<>>, NoW) }

\* the client adds the placeholder <<"p","h">> before run().  K waits for it
\* by name and S by the pattern "p*"; R1 replaces it by a task that waits for
\* a task R1 has just added, R2 by a task whose only dependency d is Done
PlaceholderTasks ==
    { Task(<<"d">>, "mayfail", <<>>, <<>>, NoW),
      OwnTask(<<"K">>, "calls", <<>>, << <<"p", "h">> >>, NoW, NoDD),
      OwnTask(<<"S">>, "calls", <<>>, << <<"p", "*">> >>, NoW, NoDD),
      OwnTask(<<"R1">>, "calls",
              << Call("add_task", << Task(<<"n">>, "work", <<>>, <<>>, NoW) >>),
                 Call("replace",
                      << OwnTask(<<"p", "h">>, "calls", <<>>, << <<"n">> >>, NoW, NoDD) >>) >>,
              <<>>, NoW, NoDD),
      OwnTask(<<"R2">>, "calls",
              << Call("replace", << Task(<<"p", "h">>, "work", <<>>, << <<"d">> >>, NoW) >>) >>,
              << <<"d">> >>, NoW, NoDD) }

\* worker tasks s1 and s2 return their results as shared returns, owner
\* tasks c1 and c2 consume them through received_shared_return; worker task
\* b may raise, and may share a batch with s1
SharedTasks ==
    { Task(<<"s", "1">>, "share", <<>>, <<>>, 50),
      Task(<<"s", "2">>, "share", <<>>, <<>>, NoW),
      OwnTask(<<"c", "1">>, "recv", <<>>, << <<"s", "1">> >>, NoW, NoDD),
      OwnTask(<<"c", "2">>, "recv", <<>>, << <<"s", "2">> >>, NoW, NoDD),
      Task(<<"b">>, "mayfail", <<>>, <<>>, NoW) }

\* run(tasks) with up to MaxInit of the core tasks
InitCore ==
    \E tasks \in SeqsUpTo(CoreTasks, MaxInit), nproc \in 1..MaxProc :
        InitWith([pre |-> <<>>, run |-> tasks, fstat |-> NoFiles], nproc)

InitTags ==
    \E tasks \in SeqsUpTo(TagTasks, MaxInit), nproc \in 1..MaxProc :
        InitWith([pre |-> <<>>, run |-> tasks, fstat |-> NoFiles], nproc)

InitPlaceholder ==
    \E tasks \in SeqsUpTo(PlaceholderTasks, MaxInit), nproc \in 1..MaxProc :
        InitWith([pre |-> << Call("add_task", <<TaskPlaceholder(<<"p", "h">>)>>) >>,
                  run |-> tasks, fstat |-> NoFiles], nproc)

\* FolderCache.start_tasks(parallel), then run([]); the scan statistics of
\* the previous run give either one scan task for the root or one for the
\* root without its subfolder and one for the subfolder.  The tree on disk
\* has r/f1 and r/s/f2; the previous run may also have seen r/s/f3.
InitFolderCache ==
    \E ondisk \in [{<<"r", "f1">>, <<"r", "s", "f2">>} ->
                        {"matched", "modified", "new"}],
       gone \in {"deleted", "never"},
       presplit \in BOOLEAN, nproc \in 1..MaxProc :
        InitWith([pre |-> start_tasks(
                      IF presplit
                      THEN << FolderToCache(RootDir, {<<"r", "s">>}),
                              FolderToCache(<<"r", "s">>, {}) >>
                      ELSE << FolderToCache(RootDir, {}) >>),
                  run |-> <<>>, fstat |-> ondisk @@ (<<"r", "s", "f3">> :> gone)], nproc)

\* a file of the downloads folder as the downloads cache holds it
Download(stem, ext) ==
    FileOnDisk(calculate_file_hash(ReadFile(<<"dl/", stem, ext>>).content), 2,
               <<"dl/", stem, ext>>, ReadFile(<<"dl/", stem, ext>>).size)

\* AvailableFiles.start_tasks(parallel), then run([]), as available_files.py
\* does under __main__.  The downloads folder holds Outer.zip, alone, with
\* Inner.zip, with a second copy of itself or with Side.zip; the
\* known-archives file is empty or holds Inner.zip as "them" hashed it.
InitArchives ==
    \E downloads \in { << Download("Outer", ".zip") >>,
                       << Download("Outer", ".zip"), Download("Inner", ".zip") >>,
                       << Download("Outer", ".zip"), Download("Outer (1)", ".zip") >>,
                       << Download("Outer", ".zip"), Download("Side", ".zip") >> },
       known \in { <<>>,
                   hash_archive("them", "inner", calculate_file_hash("inner"), 20).archives },
       nproc \in 1..MaxProc :
        InitWith([pre |-> AvailableFiles_start_tasks(downloads, known),
                  run |-> <<>>, fstat |-> NoFiles,
                  downloads |-> downloads, known |-> known], nproc)

InitShared ==
    \E tasks \in SeqsUpTo(SharedTasks, MaxInit + 1), nproc \in 1..MaxProc :
        InitWith([pre |-> <<>>, run |-> tasks, fstat |-> NoFiles], nproc)

Next ==
    \/ Run
    \/ RunOwnTask
    \/ ScheduleBestTasks
    \/ RecvStarted
    \/ RecvResults
    \/ RecvException
    \/ Epilogue
    \/ Exit
    \/ JoinAllGet
    \/ JoinAllSync
    \/ JoinProcess
    \/ JoinLogThread
    \/ \E p \in DOMAIN wstate : WorkerStart(p)
    \/ \E p \in DOMAIN wstate : WorkerBatch(p)
    \/ \E p \in DOMAIN wstate : WorkerStop(p)
    \/ LogThreadRead

\* the steps of a run of AvailableFiles: its initial worker tasks keep
\* every process busy, so that join_all never has to wait for a process to
\* confirm that it started
NextArchives ==
    \/ Run
    \/ RunOwnTask
    \/ ScheduleBestTasks
    \/ RecvStarted
    \/ RecvResults
    \/ RecvException
    \/ Epilogue
    \/ Exit
    \/ JoinAllSync
    \/ JoinProcess
    \/ JoinLogThread
    \/ \E p \in DOMAIN wstate : WorkerStart(p)
    \/ \E p \in DOMAIN wstate : WorkerBatch(p)
    \/ \E p \in DOMAIN wstate : WorkerStop(p)
    \/ LogThreadRead

\* the steps of a run whose tasks hand over shared returns
NextShared ==
    \/ Next
    \/ \E p \in DOMAIN wstate : WorkerRelease(p)

Spec == InitCore /\ [][Next]_vars
SpecShared == InitShared /\ [][NextShared]_vars
SpecTags == InitTags /\ [][Next]_vars
SpecPlaceholder == InitPlaceholder /\ [][Next]_vars
SpecFolderCache == InitFolderCache /\ [][Next]_vars
SpecArchives == InitArchives /\ [][NextArchives]_vars

\* once main is in join_all it keeps running, and so does the logging thread:
\* each takes its next step when it can
SpecFair ==
    /\ InitCore
    /\ [][Next]_vars
    /\ WF_vars(JoinAllGet \/ JoinAllSync \/ JoinProcess \/ JoinLogThread)
    /\ WF_vars(LogThreadRead)

----------------------------------------------------------------------------
(* Properties                                                              *)

Stuck ==
    /\ mainpc = "wait"
    /\ outq = <<>>
    /\ \A p \in DOMAIN wstate : wstate[p] = "loop" /\ inq[p] = <<>>

\* C2: when every declared dependency resolves and no task function raises,
\* run() ends normally with every task node Done, and main is never stuck on
\* the results queue.
C2_RunEndsAllDone ==
    /\ ~Stuck
    /\ (/\ mainpc \in {"exit", "exited"}
        /\ hist.raised = {}
        /\ par.err # "cannot resolve tasks")
       => /\ par.err = ""
          /\ \A n \in DOMAIN par.all_task_nodes : par.all_task_nodes[n].state = Done

\* C3: when the function of a task with a pattern dependency "p*" is invoked,
\* every task added so far whose name begins with p is Done.
C3_PatternBarrier == hist.patunmet = {}

\* C4: a replace_task_placeholder call on a pending placeholder makes every
\* child of the placeholder a child of the new node, leaves the children's
\* waiting counts as they were, and no such child is Ready before the new task
\* is Done.
C4_ReplaceKeepsChildren ==
    \A i \in 1..Len(hist.repl) :
        hist.repl[i].valid =>
            /\ hist.repl[i].kids \subseteq hist.repl[i].newkids
            /\ hist.repl[i].before = hist.repl[i].after
            /\ \A k \in hist.repl[i].kids :
                   par.all_task_nodes[k].state >= Ready
                   => par.all_task_nodes[hist.repl[i].name].state = Done

\* C5 as stated: no worker has more than one batch dispatched to it whose
\* results main has not received.
C5_OneOutstandingBatch ==
    \A p \in DOMAIN par.process_requests : Len(par.process_requests[p]) <= 1

\* C5 as the code has it: no worker has more than two batches dispatched to
\* it whose results main has not received.
C5_TwoOutstandingBatches ==
    \A p \in DOMAIN par.process_requests : Len(par.process_requests[p]) <= 2

\* a worker has two batches outstanding, the first of them still in its queue
C5_Witness ==
    \E p \in DOMAIN par.process_requests :
        Len(par.process_requests[p]) = 2 /\ Len(inq[p]) = 2

\* C6 as stated: main has joined a worker process only if it has received
\* ProcessStarted from every worker, on every shutdown path.
C6_JoinAfterAllStarted ==
    par.njoined > 0 =>
        \A i \in DOMAIN par.procrunningconfirmed : par.procrunningconfirmed[i]

\* C6 as the code has it: on a graceful shutdown main has joined a worker
\* process only if it has received ProcessStarted from every worker; a forced
\* shutdown is left out.
C6_GracefulJoinAfterAllStarted ==
    (par.njoined > 0 /\ ~par.force) =>
        \A i \in DOMAIN par.procrunningconfirmed : par.procrunningconfirmed[i]

\* a graceful shutdown that joined a worker after join_all had to wait for a
\* confirmation
C6_Witness ==
    /\ par.njoined > 0
    /\ ~par.force
    /\ hist.confirmedinjoin

\* C7: a worker whose task raised has put its exception on outq; once main
\* has received one, no batch is dispatched and no task marked Done any more,
\* every worker is stopped, and the process ends with exit status 1 after the
\* logging thread has handled every record and returned; and it does end.
C7_WorkerExceptionAborts ==
    /\ [](/\ \A p \in hist.raised :
                 hist.gotexc \/ \E i \in 1..Len(outq) : outq[i] = [kind |-> "exc", proc |-> p]
          /\ hist.gotexc =>
                 /\ hist.nbatches = hist.atexc.nbatches
                 /\ DOMAIN par.done_task_nodes = hist.atexc.done
                 /\ \A p \in DOMAIN wstate : wstate[p] \in {"killed", "exited"}
                 /\ mainpc \in {"join_eol", "join_procs", "join_log", "exited"}
          /\ (hist.gotexc /\ mainpc = "exited") =>
                 /\ par.exitcode = 1
                 /\ logst.returned
                 /\ logq = <<>>
                 /\ hist.nhandled = hist.nput)
    /\ (hist.gotexc ~> (mainpc = "exited" /\ par.exitcode = 1))

\* the process has ended with status 1 after main received a worker's exception
C7_Witness ==
    /\ hist.gotexc
    /\ hist.raised # {}
    /\ mainpc = "exited"
    /\ par.exitcode = 1

\* C8: the tag check made before an owner task runs never fails: no task
\* that add_task accepted finds a required tag missing or a required_not tag
\* present when it is about to run.
C8_RuntimeTagCheckNeverFails == par.err \notin {"assert924", "assert926"}

\* C9: the end-of-regular-log marker is sent before the final None, the final
\* None is sent when every worker process has been joined, and the logging
\* thread returns only after the final None, having handled every record put
\* on the log queue before it.
C9_LogDrainOrdered ==
    /\ hist.nonesent =>
           /\ hist.eolsent
           /\ hist.joinedatnone = par.nproc
           /\ \A p \in DOMAIN wstate : wstate[p] \in {"killed", "exited"}
    /\ \A i, j \in 1..Len(logq) :
           (logq[i] = "None" /\ logq[j] = "EndOfRegularLog") => j < i
    /\ logst.returned =>
           /\ hist.nonesent
           /\ hist.nhandled = hist.nputatnone

\* the logging thread has returned after handling records that arrived after
\* the end-of-regular-log marker
C9_Witness ==
    /\ logst.returned
    /\ hist.nlate > 0
    /\ hist.nhandled = hist.nputatnone

\* the scan and hash sub-tasks of the cache, worker and owner side
IsScanOrHashTask(n) ==
    Len(n) >= 2 /\ n[2] \in {"scan.", "ownscan.", "hash.", "ownhash."}

\* C10: the reconcile task is Ready, and all_files() is readable (state & 3
\* = 3), only when every scan and hash sub-task added so far is Done; no scan
\* or hash owner function finds the cache reconciled.
C10_ReconcileBarrier ==
    /\ (\/ fc.state >= 2
        \/ /\ TaskName("reconcile", <<>>) \in DOMAIN par.all_task_nodes
           /\ par.all_task_nodes[TaskName("reconcile", <<>>)].state >= Ready)
       => \A n \in DOMAIN par.all_task_nodes :
              IsScanOrHashTask(n) => par.all_task_nodes[n].state = Done
    /\ hist.inner \notin {"assert795", "assert890", "assert894"}

\* all_files() is readable after a run with one initial scan task that was
\* split while scanning and a file that was hashed
C10_Witness ==
    /\ fc.state = 3
    /\ Len(prog.pre) = 4
    /\ TaskName("ownscan.", <<"r", "s">>) \in DOMAIN par.done_task_nodes
    /\ TaskName("ownhash.", <<"r", "s", "f2">>) \in DOMAIN par.done_task_nodes

\* the map a scan of the tree with no cache of a previous run produces
FromScratch ==
    [f \in {<<"r", "f1">>, <<"r", "s", "f2">>} |->
        FileOnDisk(calculate_file_hash(DiskStat(f).content), DiskStat(f).st_mtime, f,
                   DiskStat(f).st_size)]

\* the previous run saw exactly the files on disk, one of them with another
\* content and timestamp
OneFileModified ==
    /\ Cardinality({f \in DOMAIN prog.fstat : prog.fstat[f] = "modified"}) = 1
    /\ \A f \in DOMAIN prog.fstat : prog.fstat[f] \in {"modified", "matched", "never"}

\* C11: when the cache is readable after a run in which exactly one file was
\* modified since the previous run (the others unchanged), its map path ->
\* (digest, size, mtime) is the map that a run without a previous cache ends
\* with, which has for every file on disk the digest of its content, its size
\* and its mtime.
C11_IncrementalEqualsFromScratch ==
    fc.state = 3 =>
        /\ (\A f \in DOMAIN prog.fstat : prog.fstat[f] \in {"new", "never"})
               => fc.files_by_path = FromScratch
        /\ OneFileModified => fc.files_by_path = FromScratch

\* the cache is readable after a run that re-hashed the one modified file r/s/f2
C11_Witness ==
    /\ fc.state = 3
    /\ OneFileModified
    /\ prog.fstat[<<"r", "s", "f2">>] = "modified"
    /\ TaskName("ownhash.", <<"r", "s", "f2">>) \in DOMAIN par.done_task_nodes
    /\ TaskName("ownhash.", <<"r", "f1">>) \notin DOMAIN par.all_task_nodes

----------------------------------------------------------------------------
(* run_guess: from the source VFS and the archive index to project.json    *)

\* a python dict keeps insertion order: a sequence of <<key, value>> pairs
DictHas(d, k) == \E i \in 1..Len(d) : d[i][1] = k
DictGet(d, k) == d[CHOOSE i \in 1..Len(d) : d[i][1] = k][2]
DictSet(d, k, v) ==
    IF DictHas(d, k) THEN [i \in 1..Len(d) |-> IF d[i][1] = k THEN <<k, v>> ELSE d[i]]
    ELSE Append(d, <<k, v>>)
DictDel(d, k) == LET Keep(e) == e[1] # k IN SelectSeq(d, Keep)
DictKeys(d) == {d[i][1] : i \in 1..Len(d)}

\* ZeroFileRetriever.ZEROHASH: the digest of the zero-length content
ZEROHASH == calculate_file_hash("")

\* file_retrievers_by_hash that returns the github and the archive
\* retrievers together
file_retrievers_by_hash_Mixed(available, h) ==
    IF h = calculate_file_hash("")
    THEN << [file_hash |-> calculate_file_hash(""), file_size |-> 0, zero |-> TRUE] >>
    ELSE LET Is(gh) == gh.file_hash = h
         IN SelectSeq(available.github, Is)
            \o archived_file_retrievers_by_hash(available.archives_by_hash, h)

\* AvailableFiles.file_retrievers_by_hash: the zero retriever alone for the
\* empty digest, else the github retrievers if there are any, else the
\* archive retrievers
file_retrievers_by_hash(available, h) ==
    IF h = ZEROHASH THEN << [file_hash |-> ZEROHASH, file_size |-> 0, zero |-> TRUE] >>
    ELSE LET Is(gh) == gh.file_hash = h
             github == SelectSeq(available.github, Is)
         IN IF Len(github) > 0 THEN github
            ELSE archived_file_retrievers_by_hash(available.archives_by_hash, h)

\* isinstance(r, ZeroFileRetriever), isinstance(r, GithubFileRetriever)
IsZero(r) == "zero" \in DOMAIN r
IsGithub(r) == "github" \in DOMAIN r

\* _ModInProgress.add_file without the mod's bookkeeping of unknown files
add_file_Drop(mod, intramod, retrievers) ==
    [err |-> "", mod |-> mod]

\* _ModInProgress.add_file: the file goes to unknown_files, zero_files,
\* github_files or archive_files by its first retriever; err names the
\* assertion that failed
add_file(mod, intramod, retrievers) ==
    LET r0 == retrievers[1]
        RECURSIVE Known(_, _)
        Known(known, i) ==
            IF i > Len(retrievers) THEN known
            ELSE LET arh == retrievers[i].single_archive_retrievers[1].archive_hash
                 IN Known(DictSet(known, arh, IF DictHas(known, arh)
                                              THEN DictGet(known, arh) + 1 ELSE 2), i + 1)
    IN
    IF intramod \in mod.unknown_files \cup mod.zero_files
                    \cup DictKeys(mod.github_files) \cup DictKeys(mod.archive_files)
    THEN [err |-> "assert162", mod |-> mod]
    ELSE IF Len(retrievers) = 0
    THEN [err |-> "", mod |-> [mod EXCEPT !.unknown_files = @ \cup {intramod}]]
    ELSE IF IsZero(r0)
    THEN IF Len(retrievers) # 1 THEN [err |-> "assert172", mod |-> mod]
         ELSE [err |-> "", mod |-> [mod EXCEPT !.zero_files = @ \cup {intramod}]]
    ELSE IF IsGithub(r0)
    THEN IF \E i \in 1..Len(retrievers) :
                retrievers[i].file_hash # r0.file_hash \/ ~IsGithub(retrievers[i])
         THEN [err |-> "assert177", mod |-> mod]
         ELSE [err |-> "", mod |-> [mod EXCEPT !.github_files = DictSet(@, intramod, retrievers)]]
    ELSE IF \E i \in 1..Len(retrievers) : retrievers[i].file_hash # r0.file_hash
    THEN [err |-> "assert185", mod |-> mod]
    ELSE [err |-> "",
          mod |-> [mod EXCEPT !.known_archives = Known(@, 1),
                              !.archive_files = DictSet(@, intramod, retrievers)]]

\* _ModInProgress.__init__
ModInProgress(name) ==
    [name |-> name, unknown_files |-> {}, zero_files |-> {}, github_files |-> <<>>,
     archive_files |-> <<>>, known_archives |-> <<>>, required_archives |-> <<>>,
     install_from |-> <<>>, remaining_after_install_from |-> <<>>,
     unknown_files_could_be_produced_by_tools |-> <<>>, mod_tools |-> <<>>,
     patched |-> <<>>]

\* Mo2ProjectConfig.modfile_to_target_vfs for a file of a mod outside root\
modfile_to_target_vfs(intramod) == <<"data/">> \o intramod

\* _IgnoredTargetFiles.ignored: the modpack's ignored_file_patterns are
\* patterns on the extension of the target path
ignored(g, target) == target[Len(target)] \in g.ignored

\* Stage 0 of run_guess with _ModsInProgress.add_new_file and add_dup_file:
\* every file of the source VFS that is not ignored is added to its mod with
\* the retrievers of its digest
Stage0(g) ==
    LET Add(acc, f, retrievers) ==
            LET mod == IF DictHas(acc.mods, f.mod) THEN DictGet(acc.mods, f.mod)
                       ELSE ModInProgress(f.mod)
                added == add_file(mod, f.intramod, retrievers)
            IN [acc EXCEPT !.err = added.err,
                           !.mods = IF added.err = "" THEN DictSet(@, f.mod, added.mod) ELSE @]
        \* add_new_file
        New(acc, f, retrievers) ==
            IF Len(retrievers) = 0 THEN Add(acc, f, retrievers)
            ELSE IF DictHas(acc.all_retrievers, retrievers[1].file_hash)
            THEN [acc EXCEPT !.err = "assert466"]
            ELSE IF \E i \in 1..Len(retrievers) : retrievers[i].file_hash # retrievers[1].file_hash
            THEN [acc EXCEPT !.err = "assert469"]
            ELSE Add([acc EXCEPT !.all_retrievers =
                                     DictSet(@, retrievers[1].file_hash, retrievers)],
                     f, retrievers)
        \* lines 557-562: a zero or github retriever stands alone
        Alone(retr0) ==
            IF \E i \in 1..Len(retr0) : IsZero(retr0[i]) \/ IsGithub(retr0[i])
            THEN << retr0[CHOOSE i \in 1..Len(retr0) :
                              /\ IsZero(retr0[i]) \/ IsGithub(retr0[i])
                              /\ \A j \in 1..(i - 1) : ~(IsZero(retr0[j]) \/ IsGithub(retr0[j]))] >>
            ELSE retr0
        RECURSIVE Go(_, _)
        Go(acc, i) ==
            IF acc.err # "" \/ i > Len(g.vfs) THEN acc
            ELSE LET f == g.vfs[i]
                     h == calculate_file_hash(f.content)
                 IN IF ignored(g, modfile_to_target_vfs(f.intramod)) THEN Go(acc, i + 1)
                    ELSE IF DictHas(acc.all_retrievers, h)
                    THEN Go(Add(acc, f, DictGet(acc.all_retrievers, h)), i + 1)
                    ELSE Go(New(acc, f, Alone(file_retrievers_by_hash(g.available, h))), i + 1)
    IN Go(g, 1)

\* str.startswith and str.endswith on paths, at the boundaries of path
\* components
StartsWithPath(p, pre) == Len(pre) <= Len(p) /\ SubSeq(p, 1, Len(pre)) = pre
EndsWithPath(p, suf) == Len(suf) <= Len(p) /\ SubSeq(p, Len(p) - Len(suf) + 1, Len(p)) = suf

\* SimpleUnpackArInstaller.all_desired_files, and Mo2DefaultArInstaller's,
\* which adds the files beside the data\ folder: <<path in the mod, file>>
all_desired_files(inst) ==
    LET root == inst.install_from_root
        files == inst.archive.files
        xtrapath == SubSeq(root, 1, Len(root) - 1)
        RECURSIVE Simple(_)
        Simple(i) ==
            IF i > Len(files) THEN <<>>
            ELSE (IF StartsWithPath(files[i].intra_path, root)
                  THEN << <<SubSeq(files[i].intra_path, Len(root) + 1,
                                   Len(files[i].intra_path)), files[i]>> >>
                  ELSE <<>>) \o Simple(i + 1)
        RECURSIVE Extra(_)
        Extra(i) ==
            IF i > Len(files) THEN <<>>
            ELSE (IF /\ StartsWithPath(files[i].intra_path, xtrapath)
                     /\ ~StartsWithPath(files[i].intra_path, root)
                  THEN << <<SubSeq(files[i].intra_path, Len(xtrapath) + 1,
                                   Len(files[i].intra_path)), files[i]>> >>
                  ELSE <<>>) \o Extra(i + 1)
    IN IF inst.name = "MO2DEFAULT" THEN Simple(1) \o Extra(1) ELSE Simple(1)

\* the first recipe that all_arinstaller_plugins() guesses for an archive.
\* FOMOD and BAIN return None for an archive without a fomod configuration
\* and without numbered folders.  SIMPLEUNPACK counts, over the mod's
\* files, the roots under which the archive holds a file at the mod's path,
\* and takes the last of sorted(candidate_roots.items(), key=count);
\* MO2DEFAULT takes that root if it ends with data\ and more files would be
\* installed.  ok is FALSE when no plugin guesses a recipe.
guess_arinstaller_from_vfs(archive, modfiles) ==
    LET RECURSIVE OfList(_, _, _)
        OfList(modpath, rlist, j) ==
            IF j > Len(rlist) THEN <<>>
            ELSE LET s0 == rlist[j].single_archive_retrievers[1]
                     inarrpath == s0.file_in_archive.intra_path
                 IN (IF s0.archive_hash = archive.archive_hash /\ EndsWithPath(inarrpath, modpath)
                     THEN << SubSeq(inarrpath, 1, Len(inarrpath) - Len(modpath)) >>
                     ELSE <<>>) \o OfList(modpath, rlist, j + 1)
        RECURSIVE Hits(_)
        Hits(i) == IF i > Len(modfiles) THEN <<>>
                   ELSE OfList(modfiles[i][1], modfiles[i][2], 1) \o Hits(i + 1)
        Count(hits, root) == Cardinality({i \in 1..Len(hits) : hits[i] = root})
        First(hits, root) == CHOOSE i \in 1..Len(hits) :
                                 hits[i] = root /\ \A j \in 1..(i - 1) : hits[j] # root
        Best(hits) ==
            CHOOSE c \in {hits[i] : i \in 1..Len(hits)} :
                \A d \in {hits[i] : i \in 1..Len(hits)} \ {c} :
                    \/ Count(hits, d) < Count(hits, c)
                    \/ Count(hits, d) = Count(hits, c) /\ First(hits, d) < First(hits, c)
        Recipe(name, root) == [name |-> name, archive |-> archive, install_from_root |-> root]
        Guess(best) ==
            IF /\ best # <<>>
               /\ best[Len(best)] = "data/"
               /\ Len(all_desired_files(Recipe("MO2DEFAULT", best)))
                      > Len(all_desired_files(Recipe("SIMPLEUNPACK", best)))
            THEN [ok |-> TRUE, inst |-> Recipe("MO2DEFAULT", best)]
            ELSE [ok |-> TRUE, inst |-> Recipe("SIMPLEUNPACK", best)]
        OfHits(hits) == IF hits = <<>> THEN [ok |-> FALSE] ELSE Guess(Best(hits))
    IN OfHits(Hits(1))

\* srccache.file_by_path(cfg.modfile_to_source_vfs(mf)): the file of the
\* source VFS at a path of a mod; the empty sequence stands for None
file_by_path(g, modname, intramod) ==
    LET Is(f) == f.mod = modname /\ f.intramod = intramod IN SelectSeq(g.vfs, Is)

\* the classification that enters a file the recipe would install with
\* another content into files as well
ArInstallerDetails_ModifiedInFiles(g, mod, inst) ==
    LET RECURSIVE Go(_, _, _)
        Go(desired, acc, i) ==
            IF acc.err # "" \/ i > Len(desired) THEN acc
            ELSE LET f == desired[i][1]
                     fia == desired[i][2]
                     srcfile == file_by_path(g, mod.name, f)
                     same == fia.file_hash = truncate_file_hash(
                                 calculate_file_hash(srcfile[1].content))
                     Modified(errskip, errmod) ==
                         IF f \in acc.aic.skip THEN [acc EXCEPT !.err = errskip]
                         ELSE IF DictHas(acc.aic.modified_since_install, f)
                         THEN [acc EXCEPT !.err = errmod]
                         ELSE [acc EXCEPT !.aic.skip = @ \cup {f},
                                          !.aic.files = DictSet(@, f, fia),
                                          !.aic.modified_since_install = DictSet(@, f, fia)]
                 IN Go(desired,
                       IF ignored(g, modfile_to_target_vfs(f))
                       THEN [acc EXCEPT !.aic.ignored = @ \cup {f}]
                       ELSE IF ~DictHas(mod.archive_files, f)
                       THEN IF srcfile = <<>>
                            THEN IF f \in acc.aic.skip THEN [acc EXCEPT !.err = "assert324"]
                                 ELSE [acc EXCEPT !.aic.skip = @ \cup {f}]
                            ELSE IF same
                            THEN IF fia.file_hash # truncate_file_hash(ZEROHASH)
                                 THEN [acc EXCEPT !.err = "assert330"]
                                 ELSE IF f \notin acc.zero_files
                                 THEN [acc EXCEPT !.err = "assert334"]
                                 ELSE [acc EXCEPT !.zero_files = @ \ {f}]
                            ELSE Modified("assert337", "assert339")
                       ELSE IF srcfile = <<>> THEN [acc EXCEPT !.err = "assert344"]
                       ELSE IF same
                       THEN IF DictHas(acc.aic.files, f) THEN [acc EXCEPT !.err = "assert346"]
                            ELSE [acc EXCEPT !.aic.files = DictSet(@, f, fia)]
                       ELSE Modified("assert349", "assert351"),
                       i + 1)
    IN Go(all_desired_files(inst),
          [err |-> "", zero_files |-> mod.zero_files,
           aic |-> [files |-> <<>>, skip |-> {}, modified_since_install |-> <<>>,
                    ignored |-> {}]], 1)

\* lines 315-352: what a recipe would install is sorted into files, skip,
\* modified_since_install and ignored; a zero-length file that the archive
\* holds at the mod's path leaves zero_files
ArInstallerDetails(g, mod, inst) ==
    LET RECURSIVE Go(_, _, _)
        Go(desired, acc, i) ==
            IF acc.err # "" \/ i > Len(desired) THEN acc
            ELSE LET f == desired[i][1]
                     fia == desired[i][2]
                     srcfile == file_by_path(g, mod.name, f)
                     same == fia.file_hash = truncate_file_hash(
                                 calculate_file_hash(srcfile[1].content))
                     Modified(errskip, errmod) ==
                         IF f \in acc.aic.skip THEN [acc EXCEPT !.err = errskip]
                         ELSE IF DictHas(acc.aic.modified_since_install, f)
                         THEN [acc EXCEPT !.err = errmod]
                         ELSE [acc EXCEPT !.aic.skip = @ \cup {f},
                                          !.aic.modified_since_install = DictSet(@, f, fia)]
                 IN Go(desired,
                       IF ignored(g, modfile_to_target_vfs(f))
                       THEN [acc EXCEPT !.aic.ignored = @ \cup {f}]
                       ELSE IF ~DictHas(mod.archive_files, f)
                       THEN IF srcfile = <<>>
                            THEN IF f \in acc.aic.skip THEN [acc EXCEPT !.err = "assert324"]
                                 ELSE [acc EXCEPT !.aic.skip = @ \cup {f}]
                            ELSE IF same
                            THEN IF fia.file_hash # truncate_file_hash(ZEROHASH)
                                 THEN [acc EXCEPT !.err = "assert330"]
                                 ELSE IF f \notin acc.zero_files
                                 THEN [acc EXCEPT !.err = "assert334"]
                                 ELSE [acc EXCEPT !.zero_files = @ \ {f}]
                            ELSE Modified("assert337", "assert339")
                       ELSE IF srcfile = <<>> THEN [acc EXCEPT !.err = "assert344"]
                       ELSE IF same
                       THEN IF DictHas(acc.aic.files, f) THEN [acc EXCEPT !.err = "assert346"]
                            ELSE [acc EXCEPT !.aic.files = DictSet(@, f, fia)]
                       ELSE Modified("assert349", "assert351"),
                       i + 1)
    IN Go(all_desired_files(inst),
          [err |-> "", zero_files |-> mod.zero_files,
           aic |-> [files |-> <<>>, skip |-> {}, modified_since_install |-> <<>>,
                    ignored |-> {}]], 1)

\* _ModInProgress._inter_dependency: over the files that both recipes have
\* in their files sets with different digests, how often the first has the
\* digest of the VFS file, and how often the second has it and the first
\* has not
inter_dependency(g, modname, ar0, ar1) ==
    LET commonfiles == {cf \in DictKeys(ar0.aic.files) \cap DictKeys(ar1.aic.files) :
                            DictGet(ar0.aic.files, cf).file_hash
                                # DictGet(ar1.aic.files, cf).file_hash}
        src(cf) == truncate_file_hash(
                       calculate_file_hash(file_by_path(g, modname, cf)[1].content))
    IN << Cardinality({cf \in commonfiles : DictGet(ar0.aic.files, cf).file_hash = src(cf)}),
          Cardinality({cf \in commonfiles :
                           /\ DictGet(ar0.aic.files, cf).file_hash # src(cf)
                           /\ DictGet(ar1.aic.files, cf).file_hash = src(cf)}) >>

\* _ModInProgress.resolve_unique: the archives that alone supply a file of
\* the mod are required; each gets the first recipe guessed for it; two or
\* more recipes are ordered so that none comes before a recipe it overrides
\* by _inter_dependency (line 390 raises when a round finds none to take);
\* what the recipes install leaves remaining_after_install_from.
resolve_unique(g, mod0) ==
    LET RECURSIVE Required(_, _)
        Required(acc, i) ==
            IF i > Len(mod0.archive_files) THEN acc
            ELSE LET rlist == mod0.archive_files[i][2]
                     arh == rlist[1].single_archive_retrievers[1].archive_hash
                 IN Required(IF Len(rlist) = 1 /\ \A k \in 1..Len(acc) : acc[k] # arh
                             THEN Append(acc, arh) ELSE acc, i + 1)
        archive_by_hash(arh) ==
            g.available.archives_by_hash[
                CHOOSE k \in 1..Len(g.available.archives_by_hash) :
                    g.available.archives_by_hash[k].archive_hash = arh]
        Installed(acc, inst, d) ==
            [err |-> d.err,
             mod |-> [acc.mod EXCEPT !.zero_files = d.zero_files,
                                     !.install_from = Append(@, [inst |-> inst, aic |-> d.aic])]]
        Guessed(acc, guess) ==
            IF ~guess.ok THEN acc
            ELSE Installed(acc, guess.inst, ArInstallerDetails(g, acc.mod, guess.inst))
        RECURSIVE Install(_, _, _)
        Install(required, acc, i) ==
            IF acc.err # "" \/ i > Len(required) THEN acc
            ELSE Install(required,
                         Guessed(acc, guess_arinstaller_from_vfs(archive_by_hash(required[i]),
                                                                 mod0.archive_files)),
                         i + 1)
        RECURSIVE Clear(_, _, _)
        \* _process_aic_clearing_remaining_after for every recipe
        Clear(remaining, install_from, i) ==
            IF i > Len(install_from) THEN remaining
            ELSE LET Keep(e) == ~DictHas(install_from[i].aic.files, e[1])
                 IN Clear(SelectSeq(remaining, Keep), install_from, i + 1)
        Cleared(acc) ==
            [acc EXCEPT !.mod.remaining_after_install_from =
                            Clear(mod0.archive_files, acc.mod.install_from, 1)]
        dependencies(install_from) ==
            {d \in (1..Len(install_from)) \X (1..Len(install_from)) :
                \/ /\ d[1] < d[2]
                   /\ inter_dependency(g, mod0.name, install_from[d[1]], install_from[d[2]])[1] > 0
                \/ /\ d[2] < d[1]
                   /\ inter_dependency(g, mod0.name, install_from[d[2]], install_from[d[1]])[2] > 0}
        \* the recipes that can be taken in a round
        NonDependent(n, deps, ordered) ==
            {i \in 1..n : /\ i \notin Range(ordered)
                          /\ \A j \in (1..n) \ Range(ordered) : <<i, j>> \notin deps}
        RECURSIVE Order(_, _, _)
        \* the loop of lines 375-390; <<>> when line 390 raises
        Order(n, deps, ordered) ==
            IF Len(ordered) = n THEN ordered
            ELSE IF NonDependent(n, deps, ordered) = {} THEN <<>>
            ELSE Order(n, deps,
                       Append(ordered, CHOOSE i \in NonDependent(n, deps, ordered) :
                                           \A j \in NonDependent(n, deps, ordered) : i <= j))
        Ordered(acc, ordered) ==
            IF ordered = <<>> THEN [acc EXCEPT !.err = "raise390"]
            ELSE Cleared([acc EXCEPT !.mod.install_from =
                                         [k \in 1..Len(ordered) |-> @[ordered[k]]]])
        Finish(acc) ==
            IF acc.err # "" THEN acc
            ELSE IF Len(acc.mod.install_from) <= 1 THEN Cleared(acc)
            ELSE Ordered(acc, Order(Len(acc.mod.install_from),
                                    dependencies(acc.mod.install_from), <<>>))
        Resolve(required) ==
            Finish(Install(required,
                           [err |-> "", mod |-> [mod0 EXCEPT !.required_archives = required]], 1))
    IN Resolve(Required(<<>>, 1))

\* Stage 1 of run_guess: _ModsInProgress.resolve_unique, mod after mod
Stage1(g) ==
    LET Resolved(acc, name, r) ==
            [acc EXCEPT !.err = r.err,
                        !.mods = IF r.err = "" THEN DictSet(@, name, r.mod) ELSE @]
        RECURSIVE Go(_, _)
        Go(acc, i) ==
            IF acc.err # "" \/ i > Len(acc.mods) THEN acc
            ELSE Go(Resolved(acc, acc.mods[i][1], resolve_unique(g, acc.mods[i][2])), i + 1)
    IN Go(g, 1)

\* ArchiveFileRetriever.archive_hash()
RetrieverArchive(r) == r.single_archive_retrievers[1].archive_hash

\* Stage 2 of run_guess, lines 598-645.  First pass, mod after mod: a file
\* left with several retrievers takes the first whose archive this mod
\* installs from.  Second pass: it takes the last whose archive any mod
\* installs from, and line 642 asserts that there is one.
Stage2(g) ==
    LET Archives(mod) == {mod.install_from[k].inst.archive.archive_hash :
                              k \in 1..Len(mod.install_from)}
        required_archives == UNION {Archives(g.mods[i][2]) : i \in 1..Len(g.mods)}
        Pick(rlist, ok) ==
            LET Is(r) == RetrieverArchive(r) \in ok IN SelectSeq(rlist, Is)
        OwnEntry(mod, e) ==
            IF Len(e[2]) > 1 /\ Pick(e[2], Archives(mod)) # <<>>
            THEN <<e[1], << Pick(e[2], Archives(mod))[1] >> >>
            ELSE e
        Own(mod) ==
            [mod EXCEPT !.remaining_after_install_from =
                            [k \in 1..Len(@) |-> OwnEntry(mod, @[k])]]
        AnyEntry(e) ==
            IF Len(e[2]) > 1
            THEN <<e[1], << Pick(e[2], required_archives)[Len(Pick(e[2], required_archives))] >> >>
            ELSE e
        AnyMod(mod) ==
            [mod EXCEPT !.remaining_after_install_from = [k \in 1..Len(@) |-> AnyEntry(@[k])]]
        NotFound(mod) ==
            \E k \in 1..Len(mod.remaining_after_install_from) :
                /\ Len(mod.remaining_after_install_from[k][2]) > 1
                /\ Pick(mod.remaining_after_install_from[k][2], required_archives) = <<>>
        own == [i \in 1..Len(g.mods) |-> <<g.mods[i][1], Own(g.mods[i][2])>>]
        RECURSIVE Go(_, _)
        Go(acc, i) ==
            IF acc.err # "" \/ i > Len(acc.mods) THEN acc
            ELSE IF NotFound(acc.mods[i][2]) THEN [acc EXCEPT !.err = "assert642"]
            ELSE Go([acc EXCEPT !.mods[i] = <<acc.mods[i][1], AnyMod(acc.mods[i][2])>>], i + 1)
    IN Go([g EXCEPT !.mods = own], 1)

\* BodySlideGlobalToolPlugin.could_be_produced under _ToolFinder, the one
\* global tool (extensions .tri and .nif), with no .osp file in the VFS:
\* TRUE when the verdict is at least Maybe.  A mesh named body_0 or body_1
\* is none of the model's files.
could_be_produced(g, targetpath) ==
    LET ext == targetpath[Len(targetpath)]
        f == SubSeq(targetpath, 1, Len(targetpath) - 1)
        target_files == {modfile_to_target_vfs(g.vfs[i].intramod) : i \in 1..Len(g.vfs)}
    IN IF ext = ".tri" THEN Append(f, ".nif") \in target_files
       ELSE IF ext = ".nif" THEN Append(f, ".tri") \in target_files
       ELSE FALSE

\* lines 692-712: the unknown files that were modified since install and
\* that a global tool could have produced move from unknown_files to
\* unknown_files_could_be_produced_by_tools
GlobalTools(g) ==
    LET RECURSIVE Files(_, _, _)
        Files(mod, msi, i) ==
            IF i > Len(msi) THEN mod
            ELSE Files(IF /\ msi[i] \in mod.unknown_files
                          /\ could_be_produced(g, modfile_to_target_vfs(msi[i]))
                       THEN [mod EXCEPT
                                !.unknown_files_could_be_produced_by_tools =
                                    DictSet(@, msi[i], "BodySlide"),
                                !.unknown_files = @ \ {msi[i]}]
                       ELSE mod, msi, i + 1)
        RECURSIVE Modified(_, _)
        \* _ModInProgress.modified_since_install
        Modified(mod, k) ==
            IF k > Len(mod.install_from) THEN <<>>
            ELSE [j \in 1..Len(mod.install_from[k].aic.modified_since_install) |->
                      mod.install_from[k].aic.modified_since_install[j][1]]
                 \o Modified(mod, k + 1)
    IN [g EXCEPT !.mods = [i \in 1..Len(@) |->
                              <<@[i][1], Files(@[i][2], Modified(@[i][2], 1), 1)>>]]

\* the JSON document of a content; no other content of the model parses
JsonDoc(content) ==
    IF content = "j1" THEN [a |-> 1, b |-> 2] ELSE [a |-> 1, b |-> 3]

\* patch_plugins_for(path): the patch plugins registered for the extension
patch_plugins_for(path) ==
    IF path[Len(path)] = ".json" THEN << "SORTEDJSON" >> ELSE <<>>

\* JsonPatchPlugin.patch(srcfile, dstfile) on flat documents of numbers:
\* every key of dst is overwritten, the keys only src has are deleted, and
\* there is no patch unless some value is the same in both
JsonPatch(src, dst) ==
    IF \A k \in DOMAIN dst \cap DOMAIN src : dst[k] # src[k] THEN [ok |-> FALSE]
    ELSE [ok |-> TRUE,
          patch |-> [number_overwrites |-> {<<k, dst[k]>> : k \in DOMAIN dst},
                     deletes |-> DOMAIN src \ DOMAIN dst]]

\* the patch stage with line 761 left out: the patched file stays in skip
Patches_KeepSkip(g) ==
    LET IsJson(content) == content \in {"j1", "j2"}
        Patch(mod, k, ff) ==
            LET fia == DictGet(mod.install_from[k].aic.modified_since_install, ff)
                src == file_by_path(g, mod.name, ff)[1].content
                arh == mod.install_from[k].inst.archive.archive_hash
            IN IF /\ ff \in mod.unknown_files
                  /\ patch_plugins_for(ff) # <<>>
                  /\ arh \in g.available.downloads
                  /\ IsJson(fia.file_hash[2]) /\ IsJson(src)
                  /\ JsonPatch(JsonDoc(fia.file_hash[2]), JsonDoc(src)).ok
               THEN [mod EXCEPT
                        !.install_from[k].aic.modified_since_install = DictDel(@, ff),
                        !.unknown_files = @ \ {ff},
                        !.patched = DictSet(@, ff,
                            <<patch_plugins_for(ff)[1],
                              JsonPatch(JsonDoc(fia.file_hash[2]), JsonDoc(src)).patch>>)]
               ELSE mod
        RECURSIVE Files(_, _, _, _)
        Files(mod, k, keys, i) ==
            IF i > Len(keys) THEN mod ELSE Files(Patch(mod, k, keys[i]), k, keys, i + 1)
        RECURSIVE Installers(_, _)
        Installers(mod, k) ==
            IF k > Len(mod.install_from) THEN mod
            ELSE Installers(
                     Files(mod, k,
                           [j \in 1..Len(mod.install_from[k].aic.modified_since_install) |->
                               mod.install_from[k].aic.modified_since_install[j][1]], 1),
                     k + 1)
    IN [g EXCEPT !.mods = [i \in 1..Len(@) |-> <<@[i][1], Installers(@[i][2], 1)>>]]

\* lines 716-768: an unknown file that a recipe would install with another
\* content, that has a patch plugin and whose archive is in the downloads
\* folder gets the first patch found; it leaves modified_since_install, skip
\* and unknown_files and is recorded in patched
Patches(g) ==
    LET IsJson(content) == content \in {"j1", "j2"}
        Patch(mod, k, ff) ==
            LET fia == DictGet(mod.install_from[k].aic.modified_since_install, ff)
                src == file_by_path(g, mod.name, ff)[1].content
                arh == mod.install_from[k].inst.archive.archive_hash
            IN IF /\ ff \in mod.unknown_files
                  /\ patch_plugins_for(ff) # <<>>
                  /\ arh \in g.available.downloads
                  /\ IsJson(fia.file_hash[2]) /\ IsJson(src)
                  /\ JsonPatch(JsonDoc(fia.file_hash[2]), JsonDoc(src)).ok
               THEN [mod EXCEPT
                        !.install_from[k].aic.modified_since_install = DictDel(@, ff),
                        !.install_from[k].aic.skip = @ \ {ff},
                        !.unknown_files = @ \ {ff},
                        !.patched = DictSet(@, ff,
                            <<patch_plugins_for(ff)[1],
                              JsonPatch(JsonDoc(fia.file_hash[2]), JsonDoc(src)).patch>>)]
               ELSE mod
        RECURSIVE Files(_, _, _, _)
        Files(mod, k, keys, i) ==
            IF i > Len(keys) THEN mod ELSE Files(Patch(mod, k, keys[i]), k, keys, i + 1)
        RECURSIVE Installers(_, _)
        Installers(mod, k) ==
            IF k > Len(mod.install_from) THEN mod
            ELSE Installers(
                     Files(mod, k,
                           [j \in 1..Len(mod.install_from[k].aic.modified_since_install) |->
                               mod.install_from[k].aic.modified_since_install[j][1]], 1),
                     k + 1)
    IN [g EXCEPT !.mods = [i \in 1..Len(@) |-> <<@[i][1], Installers(@[i][2], 1)>>]]

\* lines 837-893 and to_stable_json: the ProjectJson tree.  Stable JSON
\* sorts every list but installers, so a list of distinct entries is given
\* by the set of its entries; installers keep the order of install_from.
\* Line 862 asserts that every remaining file has one retriever.
ProjectJson(g) ==
    LET Installer(infr) ==
            [h |-> infr.inst.archive.archive_hash, type |-> infr.inst.name,
             params |-> infr.inst.install_from_root, skip |-> infr.aic.skip]
        installerarchives(mod) ==
            [k \in 1..Len(mod.install_from) |-> mod.install_from[k].inst.archive.archive_hash]
        \* installerarchives.index(arh), from 0, or the digest itself
        ArId(mod, arh) ==
            IF \E k \in 1..Len(mod.install_from) : installerarchives(mod)[k] = arh
            THEN <<"ar", (CHOOSE k \in 1..Len(mod.install_from) :
                              /\ installerarchives(mod)[k] = arh
                              /\ \A j \in 1..(k - 1) : installerarchives(mod)[j] # arh) - 1>>
            ELSE <<"arh", arh>>
        ExtraFile(e) ==
            [t |-> e[1],
             s |-> [k \in 1..Len(e[2][1].single_archive_retrievers) |->
                       e[2][1].single_archive_retrievers[k].file_in_archive.intra_path]]
        Extra(mod, arh) ==
            [id |-> ArId(mod, arh),
             files |-> {ExtraFile(mod.remaining_after_install_from[k]) :
                            k \in {j \in 1..Len(mod.remaining_after_install_from) :
                                       RetrieverArchive(mod.remaining_after_install_from[j][2][1])
                                           = arh}}]
        Mod(mod) ==
            [name |-> mod.name,
             zero |-> mod.zero_files,
             github |-> {<<mod.github_files[k][1], mod.github_files[k][2][1]>> :
                             k \in 1..Len(mod.github_files)},
             installers |-> [k \in 1..Len(mod.install_from) |-> Installer(mod.install_from[k])],
             xarchives |-> {Extra(mod, RetrieverArchive(mod.remaining_after_install_from[k][2][1])) :
                                k \in 1..Len(mod.remaining_after_install_from)},
             unknownbytools |-> DictKeys(mod.unknown_files_could_be_produced_by_tools),
             unknown |-> mod.unknown_files,
             modtools |-> mod.mod_tools,
             patches |-> {<<mod.patched[k][1], mod.patched[k][2][1], mod.patched[k][2][2]>> :
                              k \in 1..Len(mod.patched)}]
    IN IF \E i \in 1..Len(g.mods) :
              \E k \in 1..Len(g.mods[i][2].remaining_after_install_from) :
                  Len(g.mods[i][2].remaining_after_install_from[k][2]) # 1
       THEN [g EXCEPT !.err = "assert862"]
       ELSE [g EXCEPT !.project = {Mod(g.mods[i][2]) : i \in 1..Len(g.mods)}]

\* the files run_guess can find in the source VFS, in the order of
\* all_source_vfs_files(): files of mod M and one file of mod N
VfsFiles ==
    << [mod |-> "M", intramod |-> <<"readme", ".txt">>, content |-> "r"],
       [mod |-> "M", intramod |-> <<"z", ".esp">>, content |-> "z"],
       [mod |-> "M", intramod |-> <<"x_new", ".esp">>, content |-> "x"],
       [mod |-> "M", intramod |-> <<"x", ".esp">>, content |-> "x"],
       [mod |-> "M", intramod |-> <<"empty", ".txt">>, content |-> ""],
       [mod |-> "M", intramod |-> <<"cfg", ".json">>, content |-> "j2"],
       [mod |-> "M", intramod |-> <<"body", ".nif">>, content |-> "n2"],
       [mod |-> "M", intramod |-> <<"body", ".tri">>, content |-> "t"],
       [mod |-> "M", intramod |-> <<"notes", ".log">>, content |-> "l"],
       [mod |-> "N", intramod |-> <<"y", ".esp">>, content |-> "x"] >>

\* the files of VfsFiles at the positions of a set, in order
VfsOf(S) ==
    LET In(f) == \E i \in S : VfsFiles[i] = f IN SelectSeq(VfsFiles, In)

\* the index entries of Outer.zip, Side.zip and Alt.zip as a run hashed them
OuterArchive == hash_archive("me", "outer", calculate_file_hash("outer"), 30).archives
SideArchive == hash_archive("me", "side", calculate_file_hash("side"), 40).archives
AltArchive == hash_archive("me", "alt", calculate_file_hash("alt"), 14).archives

\* what run_guess starts from: the source VFS, the modpack's ignore
\* patterns, and the AvailableFiles object (archive index, github files by
\* digest, digests of the files in the downloads folder)
GuessInput(vfs, archives_by_hash, github) ==
    [pc |-> "stage0", err |-> "", vfs |-> vfs, ignored |-> {".log"},
     available |-> [archives_by_hash |-> archives_by_hash, github |-> github,
                    downloads |-> {archives_by_hash[i].archive_hash :
                                       i \in 1..Len(archives_by_hash)}],
     mods |-> <<>>, all_retrievers |-> <<>>, project |-> {}]

\* the github retriever of a copy of z.esp in a github folder
GithubZ(project) ==
    [file_hash |-> calculate_file_hash("z"), file_size |-> 5,
     github |-> <<"author", project, "z.esp">>]

\* run_guess after the caches are ready, on up to MaxFiles files of
\* VfsFiles; the index holds Outer.zip and Side.zip in either order, one of
\* them, Side.zip and Alt.zip in either order, or nothing, and z.esp may be
\* a file of one or two github folders.  The
\* archives of the index are in the downloads folder, or the index comes
\* from known-archives.json alone and the downloads folder is empty.
InitGuess ==
    \E outer \in {OuterArchive}, side \in {SideArchive}, alt \in {AltArchive} :
    \E archives_by_hash \in {<<>>, outer, side, outer \o side, side \o outer,
                              side \o alt, alt \o side},
       S \in {T \in SUBSET (1..Len(VfsFiles)) : Cardinality(T) <= MaxFiles},
       github \in {<<>>, << GithubZ("project") >>, << GithubZ("project"), GithubZ("fork") >>},
       downloaded \in BOOLEAN :
        InitAll([pre |-> <<>>, run |-> <<>>, fstat |-> NoFiles], 1,
                [GuessInput(VfsOf(S), archives_by_hash, github)
                     EXCEPT !.available.downloads = IF downloaded THEN @ ELSE {}])

\* one stage of run_guess has run: the next stage follows unless an
\* assertion failed
StageDone(g, nextpc) ==
    /\ io' = [g EXCEPT !.pc = IF g.err # "" THEN "failed" ELSE nextpc]
    /\ UNCHANGED <<prog, par, mainpc, inq, outq, logq, outlogq, wstate, logst, fc, rgd, hist>>

GuessStage0 == io.pc = "stage0" /\ \E g \in {Stage0(io)} : StageDone(g, "stage1")

GuessStage1 == io.pc = "stage1" /\ \E g \in {Stage1(io)} : StageDone(g, "stage2")

GuessStage2 == io.pc = "stage2" /\ \E g \in {Stage2(io)} : StageDone(g, "modtools")

\* lines 652-689: OPTIONAL and SCRIPT2SOURCE guess nothing for a mod without
\* files under optional\, scripts\source\ or source\scripts\
GuessModTools == io.pc = "modtools" /\ StageDone(io, "globaltools")

GuessGlobalTools == io.pc = "globaltools" /\ \E g \in {GlobalTools(io)} : StageDone(g, "patches")

GuessPatches == io.pc = "patches" /\ \E g \in {Patches(io)} : StageDone(g, "project")

GuessProject == io.pc = "project" /\ \E g \in {ProjectJson(io)} : StageDone(g, "done")

NextGuess ==
    \/ GuessStage0
    \/ GuessStage1
    \/ GuessStage2
    \/ GuessModTools
    \/ GuessGlobalTools
    \/ GuessPatches
    \/ GuessProject

SpecGuess == InitGuess /\ [][NextGuess]_vars

----------------------------------------------------------------------------
(* Claims about the archive index and the resolver                         *)

\* the tasks that hash an archive and merge the result into the index
IsArchiveHashingTask(n) ==
    StartsWith(n, <<"summon.rootgit.", "hash.">>) \/ StartsWith(n, <<"summon.rootgit.", "ownhash.">>)

\* C12: once summon.available.ownfileorigins, the task that depends on
\* RootGitData.archives_ready_task_name(), has been invoked, every task that
\* hashes an archive or merges the result into the index is done
C12_ArchivesReadyBarrier ==
    AvailableName("ownfileorigins") \in DOMAIN hist.invoked =>
        \A n \in DOMAIN par.all_task_nodes :
            IsArchiveHashingTask(n) => par.all_task_nodes[n].state = Done

\* C13: an Archive entry of the index, loaded from disk or appended after
\* hashing, stays in the index with the same digest, size, attribution and
\* file list in every later step, and the index never holds two entries for
\* one digest
C13_EntriesNeverChange ==
    [][/\ \A i \in 1..Len(rgd.archives_by_hash) :
              \E j \in 1..Len(rgd'.archives_by_hash) :
                  rgd'.archives_by_hash[j] = rgd.archives_by_hash[i]
       /\ \A i, j \in 1..Len(rgd'.archives_by_hash) :
              rgd'.archives_by_hash[i].archive_hash = rgd'.archives_by_hash[j].archive_hash
                  => i = j]_vars

\* Outer.zip has been hashed and merged into an index that was loaded with
\* the entry of Inner.zip
C13_Witness ==
    /\ Len(rgd.archives_by_hash) = 2
    /\ rgd.archives_by_hash[1].archive_hash = calculate_file_hash("inner")
    /\ rgd.archives_by_hash[1].by = "them"
    /\ rgd.archives_by_hash[1].files[1] =
           [file_hash |-> truncate_file_hash(calculate_file_hash("x")), file_size |-> 10,
            intra_path |-> <<"data/", "x", ".esp">>]
    /\ rgd.archives_by_hash[2].archive_hash = calculate_file_hash("outer")
    /\ rgd.archives_by_hash[2].by = "me"
    /\ rgd.dirty_ar

\* C14: when the downloads folder holds Outer.zip alone and no archive was
\* known before, the finished index has an entry for Outer and one for the
\* Inner archive inside it, and x.esp has a retriever whose chain has two
\* links, the first through Outer
C14_NestedArchiveIndexed ==
    (/\ rgd.ar_is_ready = 2
     /\ prog.downloads = << Download("Outer", ".zip") >>
     /\ prog.known = <<>>)
    => /\ \E i \in 1..Len(rgd.archives_by_hash) :
              rgd.archives_by_hash[i].archive_hash = calculate_file_hash("outer")
       /\ \E i \in 1..Len(rgd.archives_by_hash) :
              rgd.archives_by_hash[i].archive_hash = calculate_file_hash("inner")
       /\ \E r \in Range(archived_file_retrievers_by_hash(rgd.archives_by_hash,
                                                         calculate_file_hash("x"))) :
              /\ Len(r.single_archive_retrievers) = 2
              /\ r.single_archive_retrievers[1].archive_hash = calculate_file_hash("outer")

\* the digests a query can ask for: the files and archives of the model
Digests == {calculate_file_hash(c) : c \in {"x", "inner", "outer", "none"}}

\* C15: once the index is complete, every archive retriever returned for a
\* digest h has a chain of at least one link, each link's file is the next
\* link's archive, and its target digest is h and the file digest of its
\* last link
C15_RetrieverChains ==
    rgd.ar_is_ready = 2 =>
        \A h \in Digests :
            \A r \in Range(archived_file_retrievers_by_hash(rgd.archives_by_hash, h)) :
                LET chain == r.single_archive_retrievers IN
                /\ Len(chain) >= 1
                /\ \A i \in 1..(Len(chain) - 1) : chain[i].file_hash = chain[i + 1].archive_hash
                /\ r.file_hash = h
                /\ chain[Len(chain)].file_hash = r.file_hash

\* the files of the source VFS that no ignore pattern matches, by position
Observed(g) ==
    {i \in 1..Len(g.vfs) : ~ignored(g, modfile_to_target_vfs(g.vfs[i].intramod))}

\* the entry of a mod in project.json
ProjectMod(g, name) == CHOOSE m \in g.project : m.name = name

\* the resolver returns no retriever for the digest of a file of the VFS
NoRetriever(g, f) ==
    file_retrievers_by_hash(g.available, calculate_file_hash(f.content)) = <<>>

\* C16 as stated: in the project.json that run_guess wrote, every file of
\* the source VFS that is not ignored and whose digest has no retriever is
\* listed in unknown_files or unknown_files_by_tools of its mod
C16_UnknownOrByTools ==
    io.pc = "done" =>
        \A i \in Observed(io) :
            NoRetriever(io, io.vfs[i]) =>
                io.vfs[i].intramod \in ProjectMod(io, io.vfs[i].mod).unknown
                                       \cup ProjectMod(io, io.vfs[i].mod).unknownbytools

\* C16, amended: in the project.json that run_guess wrote, every file of
\* the source VFS that is not ignored and whose digest has no retriever is
\* listed in unknown_files, in unknown_files_by_tools or in patches of its
\* mod, and in one of them only
C16_UnknownByToolsOrPatched ==
    io.pc = "done" =>
        \A i \in Observed(io) :
            NoRetriever(io, io.vfs[i]) =>
                LET m == ProjectMod(io, io.vfs[i].mod)
                    f == io.vfs[i].intramod
                    patched == {p[1] : p \in m.patches}
                IN /\ f \in m.unknown \cup m.unknownbytools \cup patched
                   /\ ~(f \in m.unknown /\ f \in m.unknownbytools)
                   /\ ~(f \in m.unknown /\ f \in patched)
                   /\ ~(f \in m.unknownbytools /\ f \in patched)

\* project.json is written for a mod with cfg.json patched against the
\* archive's version, body.nif attributed to BodySlide and body.tri unknown,
\* none of which has a retriever
C16_Witness ==
    /\ io.pc = "done"
    /\ \E m \in io.project :
           /\ <<"cfg", ".json">> \in {p[1] : p \in m.patches}
           /\ <<"body", ".nif">> \in m.unknownbytools
           /\ <<"body", ".tri">> \in m.unknown
    /\ \A i \in 1..Len(io.vfs) :
           io.vfs[i].intramod[1] \in {"cfg", "body"} => NoRetriever(io, io.vfs[i])

\* the archives a mod installs from: what Stage 2 enters into
\* required_archives for the mod (lines 602-608)
InstallArchives(mod) ==
    {mod.install_from[k].inst.archive.archive_hash : k \in 1..Len(mod.install_from)}

\* Stage 2 has run, to its end or to the assertion of line 642
AfterStage2(g) ==
    \/ g.pc \in {"modtools", "globaltools", "patches", "project", "done"}
    \/ g.pc = "failed" /\ g.err = "assert642"

\* the retrievers of a list whose archive is one of a set
FromArchives(rlist, archives) ==
    LET Is(r) == RetrieverArchive(r) \in archives IN SelectSeq(rlist, Is)

\* C19: once Stage 2 has run, every file that resolve_unique left with
\* several archive retrievers is attributed to one of them: one whose archive
\* its own mod installs from if there is such a candidate, and otherwise one
\* whose archive some mod installs from.
C19_AttributedToRequired ==
    AfterStage2(io) =>
        \A i \in 1..Len(io.mods) :
            LET mod == io.mods[i][2]
                required_archives ==
                    UNION {InstallArchives(io.mods[j][2]) : j \in 1..Len(io.mods)}
            IN \A k \in 1..Len(mod.remaining_after_install_from) :
                   LET f == mod.remaining_after_install_from[k][1]
                       retr == mod.remaining_after_install_from[k][2]
                       candidates == DictGet(mod.archive_files, f)
                   IN Len(candidates) > 1 =>
                          /\ Len(retr) = 1
                          /\ \E c \in 1..Len(candidates) : candidates[c] = retr[1]
                          /\ RetrieverArchive(retr[1]) \in
                                 IF FromArchives(candidates, InstallArchives(mod)) # <<>>
                                 THEN InstallArchives(mod)
                                 ELSE required_archives

\* the mod files listed under remaining_archives of a mod of the manifest
RemainingFiles(m) == UNION {{e.t : e \in x.files} : x \in m.xarchives}

\* C20: in the manifest run_guess writes, every observed zero-length file of
\* the source VFS is listed under zero_files of its mod and under none of the
\* mod's remaining_archives, whatever archives the index holds and whatever
\* recipes were selected for the mod.
C20_ZeroFilesListed ==
    io.pc = "done" =>
        \A i \in Observed(io) :
            io.vfs[i].content = "" =>
                /\ io.vfs[i].intramod \in ProjectMod(io, io.vfs[i].mod).zero
                /\ io.vfs[i].intramod \notin RemainingFiles(ProjectMod(io, io.vfs[i].mod))

\* run_guess from Stage 0 to the ProjectJson object, lines 531-893: a failed
\* assertion ends the run and leaves no manifest
run_guess(vfs, archives_by_hash) ==
    LET Then(g, Stage(_)) == IF g.err # "" THEN g ELSE Stage(g)
        g6 == Then(Then(Then(Then(Then(Stage0(GuessInput(vfs, archives_by_hash, <<>>)),
                                       Stage1), Stage2), GlobalTools), Patches), ProjectJson)
    IN [err |-> g6.err, project |-> g6.project]

\* the index is finished and was built from a downloads folder holding
\* Outer.zip and Side.zip, with no archive known before
OuterAndSideHashed ==
    /\ rgd.ar_is_ready = 2
    /\ prog.downloads = << Download("Outer", ".zip"), Download("Side", ".zip") >>
    /\ prog.known = <<>>

\* C17: the manifest of a run is fixed by its inputs and prior caches.  With
\* Outer.zip and Side.zip in the downloads folder, nothing known before and
\* readme.txt, z.esp and x_new.esp of mod M in the source VFS, run_guess on
\* the index this run built gives the manifest of the run in which the two
\* hashing tasks complete in the order of their submission, however the
\* worker tasks completed in this run.
C17_SameProjectJson ==
    OuterAndSideHashed =>
        run_guess(VfsOf({1, 2, 3}), rgd.archives_by_hash)
            = run_guess(VfsOf({1, 2, 3}), OuterArchive \o SideArchive)

----------------------------------------------------------------------------
(* known-archives.json: the archive index on disk                          *)

\* A byte string is a sequence of 0..255.  A str is the sequence of its code
\* points, so that sorted() can compare two of them; the field names of the
\* schema stay strings.

\* Python's < on str
StrLess(a, b) ==
    \E i \in 1..(Len(a) + 1) :
        /\ \A j \in 1..(i - 1) : j <= Len(b) /\ a[j] = b[j]
        /\ i <= Len(b)
        /\ i <= Len(a) => a[i] < b[i]

\* to_json_hash: base64.b64encode, then rstrip("=")
to_json_hash(h) ==
    LET Char(v) == IF v < 26 THEN 65 + v            \* A-Z
                   ELSE IF v < 52 THEN 71 + v       \* a-z
                   ELSE IF v < 62 THEN v - 4        \* 0-9
                   ELSE IF v = 62 THEN 43 ELSE 47   \* + /
        RECURSIVE b64encode(_)
        b64encode(b) ==
            IF Len(b) = 0 THEN <<>>
            ELSE IF Len(b) = 1
            THEN << Char(b[1] \div 4), Char((b[1] % 4) * 16), 61, 61 >>
            ELSE IF Len(b) = 2
            THEN << Char(b[1] \div 4), Char((b[1] % 4) * 16 + b[2] \div 16),
                    Char((b[2] % 16) * 4), 61 >>
            ELSE << Char(b[1] \div 4), Char((b[1] % 4) * 16 + b[2] \div 16),
                    Char((b[2] % 16) * 4 + b[3] \div 64), Char(b[3] % 64) >>
                 \o b64encode(SubSeq(b, 4, Len(b)))
        RECURSIVE rstrip(_)
        rstrip(s) == IF Len(s) > 0 /\ s[Len(s)] = 61 THEN rstrip(SubSeq(s, 1, Len(s) - 1))
                     ELSE s
    IN rstrip(b64encode(h))

\* from_json_hash: (3 - len(s) % 3) % 3 characters of "==" are appended and
\* base64.b64decode reads the result, as the loop of binascii.a2b_base64
\* does without strict mode.  A character outside the alphabet is skipped;
\* a pad character ends the data once the quad has two or more characters
\* and the pads since the last data character complete it; data that ends
\* inside a quad is an error ("Incorrect padding"); every two data
\* characters after the first of a quad give a byte.
from_json_hash(s) ==
    LET ntopad == (3 - (Len(s) % 3)) % 3
        padded == s \o SubSeq(<<61, 61>>, 1, ntopad)
        Value(c) == IF c \in 65..90 THEN c - 65
                    ELSE IF c \in 97..122 THEN c - 71
                    ELSE IF c \in 48..57 THEN c + 4
                    ELSE IF c = 43 THEN 62
                    ELSE IF c = 47 THEN 63 ELSE 64
        IsData(i) == Value(padded[i]) < 64
        \* quad_pos and pads when the loop reaches character i
        quad_pos(i) == Cardinality({j \in 1..(i - 1) : IsData(j)}) % 4
        pads(i) == Cardinality({j \in 1..(i - 1) :
                                   padded[j] = 61 /\ \A k \in j..(i - 1) : ~IsData(k)})
        PadEnds(i) == padded[i] = 61 /\ quad_pos(i) >= 2 /\ quad_pos(i) + pads(i) + 1 >= 4
        end == IF \E i \in 1..Len(padded) : PadEnds(i)
               THEN CHOOSE i \in 1..Len(padded) : PadEnds(i) /\ \A j \in 1..(i - 1) : ~PadEnds(j)
               ELSE Len(padded) + 1
        IsValue(v) == v < 64
        data == SelectSeq([i \in 1..(end - 1) |-> Value(padded[i])], IsValue)
        Byte(k) ==
            LET q == ((k - 1) * 8) \div 6 + 1
                r == ((k - 1) * 8) % 6
            IN IF r = 0 THEN data[q] * 4 + data[q + 1] \div 16
               ELSE IF r = 2 THEN (data[q] % 16) * 16 + data[q + 1] \div 4
               ELSE (data[q] % 4) * 64 + data[q + 1]
    IN [ok |-> end <= Len(padded) \/ Len(data) % 4 = 0,
        b |-> [k \in 1..((Len(data) * 3) \div 4) |-> Byte(k)]]

\* _to_stable_json_dict: the (key, value) pairs sorted by _to_sort_key of the
\* key, "s" + key for a str; sorted() is stable
stable_json_dict(pairs) ==
    LET RECURSIVE Insert(_, _, _)
        \* e goes after the entries whose key is not greater
        Insert(sorted, e, i) ==
            IF i > Len(sorted) \/ StrLess(e[1], sorted[i][1])
            THEN SubSeq(sorted, 1, i - 1) \o <<e>> \o SubSeq(sorted, i, Len(sorted))
            ELSE Insert(sorted, e, i + 1)
        RECURSIVE Sort(_, _)
        Sort(sorted, i) ==
            IF i > Len(pairs) THEN sorted ELSE Sort(Insert(sorted, pairs[i], 1), i + 1)
    IN Sort(<<>>, 1)

\* KnownArchives.from_archives: the dict of _KnownArchive by digest, each
\* with its dict of _KnownArchivesFile by intra_path and its empty dict of
\* nested archives; ok is FALSE when the assertion of line 84 or 91 fails
from_archives(archives) ==
    LET kar(ar) == [archive_size |-> ar.archive_size, by |-> ar.by,
                    files |-> [k \in 1..Len(ar.files) |->
                                  << ar.files[k].intra_path,
                                     [file_hash |-> ar.files[k].file_hash,
                                      file_size |-> ar.files[k].file_size] >>],
                    archives |-> <<>>]
    IN [ok |-> /\ \A i, j \in 1..Len(archives) :
                      archives[i].archive_hash = archives[j].archive_hash => i = j
               /\ \A i \in 1..Len(archives) : \A j, k \in 1..Len(archives[i].files) :
                      archives[i].files[j].intra_path = archives[i].files[k].intra_path
                          => j = k,
        archives |-> [i \in 1..Len(archives) |-> << archives[i].archive_hash, kar(archives[i]) >>]]

\* to_archives that does not pass kar.by to Archive
to_archives_NoBy(known) ==
    [i \in 1..Len(known) |->
        Archive(known[i][1], known[i][2].archive_size, <<>>,
                [k \in 1..Len(known[i][2].files) |->
                    [file_hash |-> known[i][2].files[k][2].file_hash,
                     file_size |-> known[i][2].files[k][2].file_size,
                     intra_path |-> known[i][2].files[k][1]]])]

\* KnownArchives.to_archives: Archive and FileInArchive objects in the order
\* of the dicts
to_archives(known) ==
    [i \in 1..Len(known) |->
        Archive(known[i][1], known[i][2].archive_size, known[i][2].by,
                [k \in 1..Len(known[i][2].files) |->
                    [file_hash |-> known[i][2].files[k][2].file_hash,
                     file_size |-> known[i][2].files[k][2].file_size,
                     intra_path |-> known[i][2].files[k][1]]])]

\* to_stable_json(kar): the JSON tree, an object or a dict being the sequence
\* of its (key, value) pairs in the order json.dump writes them.  A field
\* goes out in the order of SUMMON_JSON unless it is an empty dict or equal
\* to its declared default (by has the default ""); from_archives leaves the
\* dict of nested archives empty, so "a" never goes out.
to_stable_json(known) ==
    LET File(f) == << <<"h", to_json_hash(f.file_hash)>>, <<"s", f.file_size>> >>
        Files(files) ==
            stable_json_dict([k \in 1..Len(files) |-> << files[k][1], File(files[k][2]) >>])
        KnownArchive(ka) ==
            << <<"x", ka.archive_size>> >>
            \o (IF ka.by # <<>> THEN << <<"b", ka.by>> >> ELSE <<>>)
            \o (IF ka.files # <<>> THEN << <<"f", Files(ka.files)>> >> ELSE <<>>)
    IN IF known = <<>> THEN <<>>
       ELSE << << "archives",
                  stable_json_dict([i \in 1..Len(known) |->
                      << to_json_hash(known[i][1]), KnownArchive(known[i][2]) >>]) >> >>

\* from_stable_json(KnownArchives(), data): the dicts in the order of the
\* file, a missing "b" loading as the default and a missing dict as empty.
\* ok is FALSE when a digest does not decode, when two keys of a dict decode
\* to one (line 409), or when "x", "h" or "s" is missing, which would load
\* as None.
from_stable_json(data) ==
    LET entries == IF DictHas(data, "archives") THEN DictGet(data, "archives") ELSE <<>>
        files(v) == IF DictHas(v, "f") THEN DictGet(v, "f") ELSE <<>>
        FileOk(f) == /\ DictHas(f, "h") /\ DictHas(f, "s")
                     /\ from_json_hash(DictGet(f, "h")).ok
        File(f) == [file_hash |-> from_json_hash(DictGet(f, "h")).b,
                    file_size |-> DictGet(f, "s")]
        KnownArchive(v) ==
            [archive_size |-> DictGet(v, "x"),
             by |-> IF DictHas(v, "b") THEN DictGet(v, "b") ELSE <<>>,
             files |-> [k \in 1..Len(files(v)) |-> << files(v)[k][1], File(files(v)[k][2]) >>],
             archives |-> <<>>]
        ok == /\ \A i \in 1..Len(entries) :
                     /\ from_json_hash(entries[i][1]).ok
                     /\ DictHas(entries[i][2], "x")
                     /\ \A k \in 1..Len(files(entries[i][2])) :
                            FileOk(files(entries[i][2])[k][2])
                     /\ \A j, k \in 1..Len(files(entries[i][2])) :
                            files(entries[i][2])[j][1] = files(entries[i][2])[k][1] => j = k
              /\ \A i, j \in 1..Len(entries) :
                     from_json_hash(entries[i][1]).b = from_json_hash(entries[j][1]).b => i = j
    IN [ok |-> ok,
        archives |-> IF ok THEN [i \in 1..Len(entries) |->
                                    << from_json_hash(entries[i][1]).b,
                                       KnownArchive(entries[i][2]) >>]
                     ELSE <<>>]

\* _write_git_archives: the content of known-archives.json for a list of
\* Archive objects
write_git_archives(archives) ==
    [ok |-> from_archives(archives).ok,
     file |-> to_stable_json(from_archives(archives).archives)]

\* _read_git_archives: the list of Archive objects of a file
read_git_archives(file) ==
    [ok |-> from_stable_json(file).ok,
     archives |-> to_archives(from_stable_json(file).archives)]

\* a SHA-256 digest (32 bytes) and a truncated file digest (9 bytes)
Digest32(k) == [i \in 1..32 |-> (k * 37 + i * 11) % 256]
Digest9(k) == [i \in 1..9 |-> (k * 53 + i * 29) % 256]

\* the archives an index is drawn from: by "me" with the files "b" and "a"
\* in the order of os.walk; by nobody and without files; by "them" with the
\* zero-length file "d\z"; and one with the digest of the first, by "them"
KnownPool ==
    << Archive(Digest32(1), 30, <<109, 101>>,
               << [file_hash |-> Digest9(1), file_size |-> 10, intra_path |-> <<98>>],
                  [file_hash |-> Digest9(2), file_size |-> 5, intra_path |-> <<97>>] >>),
       Archive(Digest32(2), 20, <<>>, <<>>),
       Archive(Digest32(3), 40, <<116, 104, 101, 109>>,
               << [file_hash |-> Digest9(3), file_size |-> 0,
                   intra_path |-> <<100, 92, 122>>] >>),
       Archive(Digest32(1), 31, <<116, 104, 101, 109>>,
               << [file_hash |-> Digest9(2), file_size |-> 5, intra_path |-> <<97>>] >>) >>

\* the entries a known-archives.json is drawn from: the first three archives
\* of KnownPool as the schema writes them, the first with its files out of
\* order, and the second with an explicit empty "b"
KnownFilePool ==
    LET File(k, size) == << <<"h", to_json_hash(Digest9(k))>>, <<"s", size>> >>
    IN << << to_json_hash(Digest32(1)),
             << <<"x", 30>>, <<"b", <<109, 101>> >>,
                <<"f", << << <<97>>, File(2, 5) >>, << <<98>>, File(1, 10) >> >> >> >> >>,
          << to_json_hash(Digest32(2)), << <<"x", 20>> >> >>,
          << to_json_hash(Digest32(3)),
             << <<"x", 40>>, <<"b", <<116, 104, 101, 109>> >>,
                <<"f", << << <<100, 92, 122>>, File(3, 0) >> >> >> >> >>,
          << to_json_hash(Digest32(1)),
             << <<"x", 30>>, <<"b", <<109, 101>> >>,
                <<"f", << << <<98>>, File(1, 10) >>, << <<97>>, File(2, 5) >> >> >> >> >>,
          << to_json_hash(Digest32(2)), << <<"x", 20>>, <<"b", <<>> >> >> >> >>

\* a file in the canonical form: maps sorted by key with no key twice,
\* digests of 32 and 9 bytes in base64 without padding, the fields of an
\* object in the order of the schema, no empty dict and no default value
\* written out
WellFormed(file) ==
    LET Sorted(d) == \A i \in 1..(Len(d) - 1) : StrLess(d[i][1], d[i + 1][1])
        Digest(s, n) == /\ from_json_hash(s).ok
                        /\ Len(from_json_hash(s).b) = n
                        /\ to_json_hash(from_json_hash(s).b) = s
        FileOk(e) == /\ [k \in 1..Len(e[2]) |-> e[2][k][1]] = <<"h", "s">>
                     /\ Digest(e[2][1][2], 9)
        ArchiveOk(e) ==
            /\ Digest(e[1], 32)
            /\ [k \in 1..Len(e[2]) |-> e[2][k][1]]
                   \in {<<"x">>, <<"x", "b">>, <<"x", "f">>, <<"x", "b", "f">>}
            /\ DictHas(e[2], "b") => DictGet(e[2], "b") # <<>>
            /\ DictHas(e[2], "f") =>
                   /\ DictGet(e[2], "f") # <<>>
                   /\ Sorted(DictGet(e[2], "f"))
                   /\ \A k \in 1..Len(DictGet(e[2], "f")) : FileOk(DictGet(e[2], "f")[k])
    IN \/ file = <<>>
       \/ /\ [k \in 1..Len(file) |-> file[k][1]] = <<"archives">>
          /\ file[1][2] # <<>>
          /\ Sorted(file[1][2])
          /\ \A i \in 1..Len(file[1][2]) : ArchiveOk(file[1][2][i])

\* the indexes a run can hold: up to MaxArchives archives of KnownPool in
\* any order, no digest twice
KnownIndexes ==
    {index \in {<<>>} \cup {[i \in 1..Len(s) |-> KnownPool[s[i]]] :
                               s \in SeqsUpTo(1..Len(KnownPool), MaxArchives)} :
        from_archives(index).ok}

\* the well-formed files of up to MaxArchives entries of KnownFilePool
KnownFiles ==
    {file \in {<<>>} \cup {<< <<"archives", [i \in 1..Len(s) |-> KnownFilePool[s[i]]]>> >> :
                              s \in SeqsUpTo(1..Len(KnownFilePool), MaxArchives)} :
        WellFormed(file)}

\* a run ends with an index in memory and saves it, or a run starts with a
\* known-archives.json on disk
InitKnown ==
    \E start \in {[pc |-> "index", from |-> "index", index |-> index, file |-> <<>>,
                   loaded |-> <<>>, rewritten |-> <<>>] : index \in KnownIndexes}
            \cup {[pc |-> "file", from |-> "file", index |-> <<>>, file |-> file,
                   loaded |-> <<>>, rewritten |-> <<>>] : file \in KnownFiles} :
        InitAll([pre |-> <<>>, run |-> <<>>, fstat |-> NoFiles], 1, start)

\* a step of saving or loading is over: the next follows unless an assertion
\* failed or the file did not load
KnownDone(k, ok, nextpc) ==
    /\ io' = [k EXCEPT !.pc = IF ok THEN nextpc ELSE "failed"]
    /\ UNCHANGED <<prog, par, mainpc, inq, outq, logq, outlogq, wstate, logst, fc, rgd, hist>>

\* _save_archives_task_func: the index goes to known-archives.json
WriteGitArchives ==
    /\ io.pc = "index"
    /\ \E w \in {write_git_archives(io.index)} :
           KnownDone([io EXCEPT !.file = w.file], w.ok, "written")

\* _load_archives_task_func of the next run: the file is read back
ReadGitArchives ==
    /\ io.pc \in {"written", "file"}
    /\ \E r \in {read_git_archives(io.file)} :
           KnownDone([io EXCEPT !.loaded = r.archives], r.ok, "read")

\* the index that was read is saved again
RewriteGitArchives ==
    /\ io.pc = "read"
    /\ \E w \in {write_git_archives(io.loaded)} :
           KnownDone([io EXCEPT !.rewritten = w.file], w.ok, "rewritten")

NextKnown ==
    \/ WriteGitArchives
    \/ ReadGitArchives
    \/ RewriteGitArchives

SpecKnown == InitKnown /\ [][NextKnown]_vars

\* two lists of Archive objects are the same index: the same archives by
\* digest, each with the same size, attribution and files
SameIndex(a, b) ==
    LET Entry(ar) == [archive_hash |-> ar.archive_hash, archive_size |-> ar.archive_size,
                      by |-> ar.by, nfiles |-> Len(ar.files),
                      files |-> {ar.files[k] : k \in 1..Len(ar.files)}]
    IN /\ Len(a) = Len(b)
       /\ {Entry(a[i]) : i \in 1..Len(a)} = {Entry(b[i]) : i \in 1..Len(b)}

\* C18: saving and loading never fail on an index or on a well-formed file;
\* the index loaded from the file an index I was saved to is the index I
\* (the same archives by digest with the same size, attribution and files);
\* and saving the index loaded from a well-formed file S writes S again,
\* pair for pair in the same order, with digests of 32 and of 9 bytes.
C18_IndexRoundTrips ==
    /\ io.pc # "failed"
    /\ io.pc \in {"read", "rewritten"} /\ io.from = "index" => SameIndex(io.loaded, io.index)
    /\ io.pc = "rewritten" => io.rewritten = io.file

\* an index of three archives that is not in the order of the file, one of
\* them by "them", with a file digest of 9 bytes, was saved, read and saved
\* again
C18_Witness ==
    /\ io.pc = "rewritten"
    /\ io.from = "index"
    /\ Len(io.index) = 3
    /\ io.loaded # io.index
    /\ Len(io.index[1].archive_hash) = 32
    /\ \E i \in 1..3 : /\ io.index[i].by = <<116, 104, 101, 109>>
                       /\ io.index[i].files # <<>>
                       /\ Len(io.index[i].files[1].file_hash) = 9

\* the patch that the plugins registered for the extension of ff find from
\* the version recipe k of a mod would install to the version of the VFS:
\* the one-element sequence of (plugin name, payload), or <<>> when the
\* extension has no plugin or no plugin finds a patch
FirstPatch(g, mod, k, ff) ==
    LET arc == DictGet(mod.install_from[k].aic.modified_since_install, ff).file_hash[2]
        src == file_by_path(g, mod.name, ff)[1].content
    IN IF /\ patch_plugins_for(ff) # <<>>
          /\ arc \in {"j1", "j2"} /\ src \in {"j1", "j2"}
          /\ JsonPatch(JsonDoc(arc), JsonDoc(src)).ok
       THEN << <<patch_plugins_for(ff)[1], JsonPatch(JsonDoc(arc), JsonDoc(src)).patch>> >>
       ELSE <<>>

\* the patch stage took ff out of modified_since_install and skip of recipe
\* k of mod i and recorded the patch p for it, once
PatchRecorded(i, k, ff, p) ==
    /\ ~DictHas(io'.mods[i][2].install_from[k].aic.modified_since_install, ff)
    /\ ff \notin io'.mods[i][2].install_from[k].aic.skip
    /\ Cardinality({n \in 1..Len(io'.mods[i][2].patched) :
                        io'.mods[i][2].patched[n][1] = ff}) = 1
    /\ DictGet(io'.mods[i][2].patched, ff) = p

\* C21 as stated: the patch stage patches every file of a recipe's
\* modified_since_install for which a registered patch plugin finds a patch:
\* the file leaves modified_since_install and skip of the recipe and one
\* (plugin name, payload) entry is recorded for it
C21_EveryModifiedFilePatched ==
    [][GuessPatches =>
          \A i \in 1..Len(io.mods) : \A k \in 1..Len(io.mods[i][2].install_from) :
              \A ff \in DictKeys(io.mods[i][2].install_from[k].aic.modified_since_install) :
                  FirstPatch(io, io.mods[i][2], k, ff) # <<>> =>
                      PatchRecorded(i, k, ff, FirstPatch(io, io.mods[i][2], k, ff)[1])]_vars

\* recipe k of a mod is one the patch stage can patch ff for: ff is in its
\* modified_since_install and among the mod's unknown files, the recipe's
\* archive is a file of the downloads folder, and a plugin finds a patch
Patchable(g, mod, k, ff) ==
    /\ DictHas(mod.install_from[k].aic.modified_since_install, ff)
    /\ ff \in mod.unknown_files
    /\ mod.install_from[k].inst.archive.archive_hash \in g.available.downloads
    /\ FirstPatch(g, mod, k, ff) # <<>>

\* C21, amended: the patch stage patches a file of a recipe's
\* modified_since_install that is still among the mod's unknown files when
\* the recipe is reached, whose archive is in the downloads folder and for
\* which a registered patch plugin finds a patch.  The file leaves
\* modified_since_install and skip of that recipe and unknown_files, and
\* one (plugin name, payload) entry is recorded for it: for x.json = {a:1,
\* b:2} in the archive and {a:1, b:3} in the VFS, a SORTEDJSON payload that
\* overwrites b to 3.  Nothing else is recorded as patched.
C21_UnknownModifiedFilePatched ==
    [][GuessPatches =>
          \A i \in 1..Len(io.mods) :
              /\ \A k \in 1..Len(io.mods[i][2].install_from) :
                 \A ff \in DictKeys(io.mods[i][2].install_from[k].aic.modified_since_install) :
                     /\ Patchable(io, io.mods[i][2], k, ff)
                     /\ \A k2 \in 1..(k - 1) : ~Patchable(io, io.mods[i][2], k2, ff)
                     => /\ PatchRecorded(i, k, ff, FirstPatch(io, io.mods[i][2], k, ff)[1])
                        /\ ff \notin io'.mods[i][2].unknown_files
                        /\ DictGet(io'.mods[i][2].patched, ff)[1] = "SORTEDJSON"
                        /\ <<"b", 3>> \in DictGet(io'.mods[i][2].patched, ff)[2].number_overwrites
              /\ \A ff \in DictKeys(io'.mods[i][2].patched) :
                     \E k \in 1..Len(io.mods[i][2].install_from) :
                         Patchable(io, io.mods[i][2], k, ff)]_vars

\* the patch stage has run on mod M with cfg.json = {a:1, b:3} while
\* Side.zip, in the downloads folder, holds data/cfg.json = {a:1, b:2}: one
\* SORTEDJSON record that overwrites b to 3, and cfg.json is in no skip set
C21_Witness ==
    /\ io.pc = "project"
    /\ \E i \in 1..Len(io.mods) :
           /\ Len(io.mods[i][2].patched) = 1
           /\ io.mods[i][2].patched[1][1] = <<"cfg", ".json">>
           /\ io.mods[i][2].patched[1][2][1] = "SORTEDJSON"
           /\ <<"b", 3>> \in io.mods[i][2].patched[1][2][2].number_overwrites
           /\ io.mods[i][2].install_from # <<>>
           /\ \A k \in 1..Len(io.mods[i][2].install_from) :
                  <<"cfg", ".json">> \notin io.mods[i][2].install_from[k].aic.skip

\* C22: once the global tools stage has run, no file whose extension a
\* global tool claims and that a global tool could have produced is left
\* among a mod's unknown files: it was moved to
\* unknown_files_could_be_produced_by_tools under the name of the tool
C22_UnknownOfferedToTools ==
    io.pc \in {"patches", "project", "done"} =>
        \A i \in 1..Len(io.mods) :
            /\ \A ff \in io.mods[i][2].unknown_files :
                   ff[Len(ff)] \in {".tri", ".nif"} =>
                       ~could_be_produced(io, modfile_to_target_vfs(ff))
            /\ \A ff \in DictKeys(io.mods[i][2].unknown_files_could_be_produced_by_tools) :
                   /\ ff \notin io.mods[i][2].unknown_files
                   /\ DictGet(io.mods[i][2].unknown_files_could_be_produced_by_tools, ff)
                          = "BodySlide"

\* C23: once the cache is reconciled, its map holds no path of the loaded
\* map that this run's scan did not observe, and it holds every file of the
\* tree on disk, under its path
C23_ReconciledMapIsObserved ==
    fc.state = 3 =>
        /\ \A f \in DOMAIN read_dict_of_files(prog.fstat) :
               f \notin DOMAIN fc.scannedfiles => f \notin DOMAIN fc.files_by_path
        /\ \A f \in {<<"r", "f1">>, <<"r", "s", "f2">>} :
               /\ f \in DOMAIN fc.scannedfiles
               /\ f \in DOMAIN fc.files_by_path
               /\ fc.files_by_path[f].file_path = f

\* the cache is reconciled after a run that kept r/f1, hashed r/s/f2 again
\* and did not find r/s/f3 of the loaded map
C23_Witness ==
    /\ fc.state = 3
    /\ prog.fstat[<<"r", "f1">>] = "matched"
    /\ prog.fstat[<<"r", "s", "f2">>] = "modified"
    /\ prog.fstat[<<"r", "s", "f3">>] = "deleted"
    /\ <<"r", "s", "f3">> \in DOMAIN read_dict_of_files(prog.fstat)
    /\ TaskName("ownhash.", <<"r", "s", "f2">>) \in DOMAIN par.done_task_nodes
    /\ TaskName("ownhash.", <<"r", "f1">>) \notin DOMAIN par.all_task_nodes

\* C24: a run in which _calc_hash_task_func raised on reading a file goes
\* on to completion: when the process has ended, the cache is reconciled and
\* the exit status is not that of an aborted run
C24_ReadErrorSkipsFile ==
    (hist.raised # {} /\ mainpc = "exited") => (fc.state = 3 /\ par.exitcode # 1)

\* the digests run_guess asks retrievers for: the contents of the files of
\* the model's VFS
VfsDigests == {calculate_file_hash(VfsFiles[i].content) : i \in 1..Len(VfsFiles)}

\* a list of retrievers R is what the resolver owes for digest h
RetrieverKinds(available, h, R) ==
    LET occurrences == {i \in 1..Len(available.github) : available.github[i].file_hash = h}
    IN /\ h = ZEROHASH =>
              /\ Len(R) = 1
              /\ IsZero(R[1]) /\ ~IsGithub(R[1])
              /\ R[1].file_hash = h /\ R[1].file_size = 0
       /\ (h # ZEROHASH /\ occurrences # {}) =>
              /\ Len(R) = Cardinality(occurrences)
              /\ \A i \in 1..Len(R) : IsGithub(R[i]) /\ ~IsZero(R[i]) /\ R[i].file_hash = h
              /\ {R[i].github : i \in 1..Len(R)}
                     = {available.github[i].github : i \in occurrences}
       /\ (h # ZEROHASH /\ occurrences = {}) =>
              /\ \A i \in 1..Len(R) :
                     /\ ~IsZero(R[i]) /\ ~IsGithub(R[i])
                     /\ "single_archive_retrievers" \in DOMAIN R[i]
              /\ R = archived_file_retrievers_by_hash(available.archives_by_hash, h)

\* C25: for every digest, file_retrievers_by_hash returns the zero retriever
\* alone for the digest of the empty content; else one github retriever per
\* occurrence of the digest in the github folders and no other retriever;
\* else archive retrievers only
C25_RetrieverKinds ==
    \A h \in VfsDigests :
        RetrieverKinds(io.available, h, file_retrievers_by_hash(io.available, h))

\* Stage 0 has asked for the retrievers of an empty file, of z.esp and of
\* x.esp; z.esp is in two github folders and in Side.zip, the empty file is
\* in both archives, and x.esp is in archives only
C25_Witness ==
    /\ io.pc = "stage1"
    /\ Len(io.available.github) = 2
    /\ {ZEROHASH, calculate_file_hash("z"), calculate_file_hash("x")}
           \subseteq DictKeys(io.all_retrievers)
    /\ Len(file_retrievers_by_hash(io.available, calculate_file_hash("z"))) = 2
    /\ archived_file_retrievers_by_hash(io.available.archives_by_hash,
                                        calculate_file_hash("z")) # <<>>
    /\ Len(archived_file_retrievers_by_hash(io.available.archives_by_hash, ZEROHASH)) >= 2
    /\ Len(file_retrievers_by_hash(io.available, calculate_file_hash("x"))) >= 2

\* C26: once the recipes of a mod are selected, every file f of a recipe's
\* files set is a file of the mod in the VFS whose digest, truncated as the
\* index records digests, is the digest the recipe's archive records for
\* the entry that f is installed from
C26_RecipeFilesMatchVfs ==
    io.pc \in {"stage2", "modtools", "globaltools", "patches", "project", "done"} =>
        \A i \in 1..Len(io.mods) : \A k \in 1..Len(io.mods[i][2].install_from) :
            \A n \in 1..Len(io.mods[i][2].install_from[k].aic.files) :
                LET f == io.mods[i][2].install_from[k].aic.files[n][1]
                    fia == io.mods[i][2].install_from[k].aic.files[n][2]
                IN /\ file_by_path(io, io.mods[i][1], f) # <<>>
                   /\ truncate_file_hash(calculate_file_hash(
                          file_by_path(io, io.mods[i][1], f)[1].content)) = fia.file_hash
                   /\ fia \in Range(io.mods[i][2].install_from[k].inst.archive.files)

\* a recipe for Side.zip was selected for a mod with z.esp as in the archive
\* and cfg.json with another content than the archive's: z.esp is in files
\* and cfg.json is not
C26_Witness ==
    /\ io.pc = "stage2"
    /\ \E i \in 1..Len(io.mods) : \E k \in 1..Len(io.mods[i][2].install_from) :
           /\ DictHas(io.mods[i][2].install_from[k].aic.files, <<"z", ".esp">>)
           /\ ~DictHas(io.mods[i][2].install_from[k].aic.files, <<"cfg", ".json">>)
           /\ DictHas(io.mods[i][2].install_from[k].aic.modified_since_install,
                      <<"cfg", ".json">>)

\* recipe a of a mod overrides recipe b: some file that both would install,
\* with different digests, has in the VFS the digest of a's version
Overrides(g, modname, a, b) ==
    \E n \in 1..Len(all_desired_files(a.inst)) : \E m \in 1..Len(all_desired_files(b.inst)) :
        /\ all_desired_files(a.inst)[n][1] = all_desired_files(b.inst)[m][1]
        /\ all_desired_files(a.inst)[n][2].file_hash # all_desired_files(b.inst)[m][2].file_hash
        /\ file_by_path(g, modname, all_desired_files(a.inst)[n][1]) # <<>>
        /\ all_desired_files(a.inst)[n][2].file_hash
               = truncate_file_hash(calculate_file_hash(
                     file_by_path(g, modname, all_desired_files(a.inst)[n][1])[1].content))

\* the relation has a cycle among the recipes of a mod (of two or of three
\* recipes: no mod of the model has more)
OverrideCycle(g, mod) ==
    \E a, b \in Range(mod.install_from) :
        /\ a # b
        /\ Overrides(g, mod.name, a, b)
        /\ \/ Overrides(g, mod.name, b, a)
           \/ \E c \in Range(mod.install_from) \ {a, b} :
                  Overrides(g, mod.name, b, c) /\ Overrides(g, mod.name, c, a)

\* C27: a cycle among the recipes of a mod never stops the run (line 390
\* does not raise), and once the recipes are ordered a mod whose recipes
\* override each other in a cycle is aborted: it is left without recipes
C27_CycleAbortsMod ==
    /\ io.err # "raise390"
    /\ io.pc \in {"stage2", "modtools", "globaltools", "patches", "project", "done"} =>
           \A i \in 1..Len(io.mods) :
               OverrideCycle(io, io.mods[i][2]) => io.mods[i][2].install_from = <<>>

\* ---------------------------------------------------------------------
\* FOMOD guessing: plugins/arinstaller/_fomod/fomod_guess.py
\* ---------------------------------------------------------------------

\* the group kinds of the module configs: step i of a config holds one group
\* of one plugin without condition flags, which installs the file i of the
\* archive to the path i of the mod
FomodGroupSelect == {"SelectAll", "SelectAny", "SelectAtMostOne"}

FomodModuleConfigs == UNION {[1..n -> FomodGroupSelect] : n \in 0..MaxPlugins}

\* FomodEngine.run with a _FomodGuessFakeUI: one wizard page per install step.
\* A plugin inside start_step is replayed; after it a SelectAll plugin is
\* predetermined True, a SelectAny plugin gets None (it becomes a
\* true_or_false plugin), and a SelectAtMostOne plugin is taken as True
\* while a fork with False is requested
RECURSIVE wizard_page(_, _, _, _)
wizard_page(modulecfg, start_step, current_step, requested_forks) ==
    LET i == Len(current_step) + 1 IN
    IF i > Len(modulecfg)
    THEN [current_step |-> current_step, requested_forks |-> requested_forks]
    ELSE IF i <= Len(start_step)
    THEN wizard_page(modulecfg, start_step, Append(current_step, start_step[i]),
                     requested_forks)
    ELSE IF modulecfg[i] = "SelectAll"
    THEN wizard_page(modulecfg, start_step, Append(current_step, "True"), requested_forks)
    ELSE IF modulecfg[i] = "SelectAny"
    THEN wizard_page(modulecfg, start_step, Append(current_step, "None"), requested_forks)
    ELSE wizard_page(modulecfg, start_step, Append(current_step, "True"),
                     Append(requested_forks, Append(current_step, "False")))

\* an iteration of the while loop without the check of lines 420-422
fomod_guess_fork_NoCap(k) ==
    LET Ran(ui) ==
            LET remaining == Tail(k.remaining_forks) \o ui.requested_forks IN
            [k EXCEPT !.processed_forks = Append(@, ui.current_step),
                      !.remaining_forks = remaining,
                      !.pc = IF remaining = <<>> THEN "best" ELSE "forks"]
    IN Ran(wizard_page(k.modulecfg, k.remaining_forks[1], <<>>, <<>>))

\* an iteration of the while loop: the first remaining fork is simulated and
\* processed, the forks it requested are queued, and with more than MaxForks
\* forks processed or queued the attempt is given up with an alert
fomod_guess_fork(k) ==
    LET Ran(ui) ==
            LET remaining == Tail(k.remaining_forks) \o ui.requested_forks IN
            IF Len(k.processed_forks) + 1 + Len(remaining) > MaxForks
            THEN [k EXCEPT !.processed_forks = Append(@, ui.current_step),
                           !.remaining_forks = remaining,
                           !.alerts = Append(@, "Too many simulations"),
                           !.result = <<>>,
                           !.pc = "returned"]
            ELSE [k EXCEPT !.processed_forks = Append(@, ui.current_step),
                           !.remaining_forks = remaining,
                           !.pc = IF remaining = <<>> THEN "best" ELSE "forks"]
    IN Ran(wizard_page(k.modulecfg, k.remaining_forks[1], <<>>, <<>>))

\* the loop over the processed forks: the plugins a fork selected and the
\* true_or_false plugins whose file the mod holds are replayed, the candidate
\* counts if more than half of its files are the mod's, the candidate
\* covering most files (then the one desiring fewest) is kept, and the loop
\* breaks at a candidate that is exactly the mod
fomod_guess_best(k) ==
    LET Selections(pf) ==
            {i \in 1..Len(pf) : pf[i] = "True"}
                \cup {i \in 1..Len(pf) : k.modulecfg[i] = "SelectAny" /\ i \in k.modfiles}
        Better(best, sel, n) ==
            IF n > best.coverage \/ (n = best.coverage /\ Cardinality(sel) < best.desired)
            THEN [arinstaller |-> <<sel>>, coverage |-> n, desired |-> Cardinality(sel)]
            ELSE best
        Candidate(best, sel, n) ==
            IF 2 * n > Cardinality(sel) THEN Better(best, sel, n) ELSE best
        Ideal(best) ==
            /\ best.arinstaller # <<>>
            /\ Cardinality(k.modfiles) = best.desired
            /\ best.desired = best.coverage
        RECURSIVE Best(_, _)
        Best(i, best) ==
            IF i > Len(k.processed_forks) \/ Ideal(best) THEN best
            ELSE Best(i + 1, Candidate(best, Selections(k.processed_forks[i]),
                                       Cardinality(Selections(k.processed_forks[i])
                                                   \cap k.modfiles)))
        Return(best) ==
            [k EXCEPT !.result = IF best.arinstaller = <<>> THEN <<>>
                                 ELSE <<[arinstaller |-> best.arinstaller[1],
                                         coverage |-> best.coverage]>>,
                      !.pc = "returned"]
    IN Return(Best(1, [arinstaller |-> <<>>, coverage |-> 0, desired |-> 0]))

InitFomod ==
    \E modulecfg \in FomodModuleConfigs, modfiles \in SUBSET (1..MaxPlugins) :
        InitAll([pre |-> <<>>, run |-> <<>>, fstat |-> NoFiles], 1,
                [pc |-> "forks", modulecfg |-> modulecfg, modfiles |-> modfiles,
                 processed_forks |-> <<>>, remaining_forks |-> << <<>> >>,
                 alerts |-> <<>>, result |-> <<>>])

FomodDone(k) ==
    /\ io' = k
    /\ UNCHANGED <<prog, par, mainpc, inq, outq, logq, outlogq, wstate, logst, fc, rgd, hist>>

FomodFork ==
    /\ io.pc = "forks"
    /\ FomodDone(fomod_guess_fork(io))

FomodBest ==
    /\ io.pc = "best"
    /\ FomodDone(fomod_guess_best(io))

NextFomod ==
    \/ FomodFork
    \/ FomodBest

\* fomod_guess is sequential code: a step that can be taken is taken
SpecFomod == InitFomod /\ [][NextFomod]_vars /\ WF_vars(NextFomod)

\* the forks processed and queued
NForks == Len(io.processed_forks) + Len(io.remaining_forks)

\* C28: FOMOD guessing for one archive terminates; whenever a fork is taken
\* from the queue no more than MaxForks forks are processed or queued, the
\* count passes MaxForks by at most the forks one simulation requested, and
\* then the attempt has returned with an alert and without a recipe, while
\* an attempt that stayed within MaxForks gave no alert
C28_ForksCappedAndTerminates ==
    /\ [](io.pc \in {"forks", "best"} => NForks <= MaxForks)
    /\ [](NForks <= MaxForks + Len(io.modulecfg))
    /\ [](NForks > MaxForks <=> (io.pc = "returned" /\ io.alerts # <<>>))
    /\ [](io.alerts # <<>> => io.result = <<>>)
    /\ [](io.pc = "best" => io.remaining_forks = <<>>)
    /\ <>(io.pc = "returned")

\* the attempt was given up at the cap: more than MaxForks forks and no recipe
C28_Witness ==
    /\ io.pc = "returned"
    /\ NForks > MaxForks
    /\ io.remaining_forks # <<>>
    /\ io.alerts = <<"Too many simulations">>
    /\ io.result = <<>>

\* C29: once the function of an owner task has raised, _run_own_task raises
\* in the same step and leaves the run loop for __exit__ with the failing
\* task not Done; afterwards no owner task is invoked, no batch is
\* dispatched to a worker (a worker may still run a batch it was sent
\* before), no node becomes Running or Done, and the run ends with the
\* exception (not through os._exit) and a failure recorded
C29_OwnExceptionAborts ==
    /\ [](hist.inner # "" =>
            /\ par.err # ""
            /\ ~par.osexit
            /\ mainpc \in {"exit", "join_eol", "join_procs", "join_log", "exited"}
            /\ (mainpc = "exited" => par.exitcode = 1))
    /\ [][(hist.inner = "" /\ hist.inner' # "") =>
            /\ mainpc \in {"own0", "own1"}
            /\ mainpc' = "exit"
            /\ par'.err = "Exception in user OwnTask.run()"
            /\ DOMAIN par'.done_task_nodes = DOMAIN par.done_task_nodes
            /\ hist'.nbatches = hist.nbatches]_vars
    /\ [][hist.inner # "" =>
            /\ \A n \in DOMAIN hist'.invoked :
                   par.all_task_nodes[n].task.kind = "OwnTask"
                   => (n \in DOMAIN hist.invoked /\ hist'.invoked[n] = hist.invoked[n])
            /\ hist'.nbatches = hist.nbatches
            /\ par'.process_requests = par.process_requests
            /\ DOMAIN par'.running_task_nodes = DOMAIN par.running_task_nodes
            /\ DOMAIN par'.done_task_nodes = DOMAIN par.done_task_nodes
            /\ par'.all_task_nodes = par.all_task_nodes]_vars

\* an owner task raised while worker tasks were Running and an owner task
\* was Ready, and the run has ended
C29_Witness ==
    /\ hist.inner # ""
    /\ mainpc = "exited"
    /\ par.exitcode = 1
    /\ par.running_task_nodes # <<>>
    /\ par.ready_own_task_nodes # {}

\* C30: a worker task taken for dispatch has, with the weights current when
\* _schedule_best_tasks pops it, an estimate own_weight + max_leaf_weight at
\* least as high as that of every worker task that is Ready and is left Ready
C30_PopsHighestEstimate ==
    [][\A n \in par.ready_task_nodes :
           (n \in DOMAIN par'.all_task_nodes /\ par'.all_task_nodes[n].state = Running)
           => \A m \in par.ready_task_nodes \cap par'.ready_task_nodes :
                  total_weight(par.all_task_nodes[m]) <= total_weight(par.all_task_nodes[n])]_vars

\* C31 as stated: no owner task is Ready when main blocks on the results
\* queue, nor at either test of is_all_done(): the one at the bottom of the
\* loop (line 670) and the one made right after the results of a batch were
\* processed (line 714)
C31_NoReadyOwnerAtWaitOrCheck ==
    /\ [](mainpc \in {"wait", "finished"} => par.ready_own_task_nodes = {})
    /\ [][(mainpc = "wait" /\ Len(outq') < Len(outq) /\ Head(outq).kind = "results"
           /\ par'.err = "")
          => par'.ready_own_task_nodes = {}]_vars

\* C31: no owner task is Ready when main blocks on the results queue or has
\* found the run complete, and every test of is_all_done() made after
\* _run_all_own_tasks finds none Ready; the test made right after the results
\* of a batch may find owner tasks Ready, and then it fails and they are run
\* before main blocks again
C31_NoReadyOwnerAtWait ==
    /\ [](mainpc \in {"wait", "finished"} => par.ready_own_task_nodes = {})
    /\ [][(mainpc \in {"own0", "own1", "sched2"} /\ mainpc' \in {"wait", "finished"})
          => par'.ready_own_task_nodes = {}]_vars
    /\ [][(mainpc = "wait" /\ par'.ready_own_task_nodes # {} /\ par'.err = "")
          => (mainpc' = "sched1" /\ ~is_all_done(par'))]_vars

\* main blocks on the results queue again after the owner task of a scan,
\* made ready by the results of the scan's batch, has run
C31_Witness ==
    /\ mainpc = "wait"
    /\ fc.scannedfiles # <<>>
    /\ par.running_task_nodes # <<>>
    /\ par.ready_own_task_nodes = {}
    /\ par.err = ""

\* the release messages for region name waiting in the inbox of process p
ReleasesQueued(p, name) ==
    Len(SelectSeq(inq[p], LAMBDA m : m.kind = "release" /\ m.shm = name))

\* how often process p closed region name, by way of `by`
Closings(p, name, by) ==
    Cardinality({i \in 1..Len(io.closed) : io.closed[i] = <<p, name, by>>})

\* C32: main reads a shared return at most once; for every region read
\* exactly one release was sent, to the worker that produced it, and it
\* waits in that worker's inbox or has been processed; releases exist for
\* nothing else; a running worker holds every region a waiting release
\* names; no worker closes a region twice or keeps one it closed; and when
\* the run ends gracefully the producer has closed and forgotten every
\* region read, once and on its release
C32_OneReadOneRelease ==
    /\ \A i, j \in 1..Len(par.shm_read) :
           par.shm_read[i].shm = par.shm_read[j].shm => i = j
    /\ \A i \in 1..Len(par.shm_read) :
           ReleasesQueued(par.shm_read[i].sender, par.shm_read[i].shm)
           + Closings(par.shm_read[i].sender, par.shm_read[i].shm, "done_with") = 1
    /\ \A p \in DOMAIN inq : \A k \in 1..Len(inq[p]) :
           inq[p][k].kind = "release"
           => /\ \E i \in 1..Len(par.shm_read) :
                     par.shm_read[i] = make_shared_return_param(inq[p][k].shm, p)
              /\ wstate[p] = "loop"
                 => \E i \in 1..Len(io.shareds[p]) : io.shareds[p][i] = inq[p][k].shm
    /\ \A i, j \in 1..Len(io.closed) :
           (io.closed[i][1] = io.closed[j][1] /\ io.closed[i][2] = io.closed[j][2]) => i = j
    /\ \A i \in 1..Len(io.closed) :
           /\ \A k \in 1..Len(io.shareds[io.closed[i][1]]) :
                  io.shareds[io.closed[i][1]][k] # io.closed[i][2]
           /\ io.closed[i][3] = "done_with"
              => \E k \in 1..Len(par.shm_read) :
                     par.shm_read[k] = make_shared_return_param(io.closed[i][2], io.closed[i][1])
    /\ (mainpc = "exited" /\ par.exitcode = 0)
       => \A i \in 1..Len(par.shm_read) :
              /\ Closings(par.shm_read[i].sender, par.shm_read[i].shm, "done_with") = 1
              /\ Closings(par.shm_read[i].sender, par.shm_read[i].shm, "cleanup") = 0

\* two shared returns were read, each was released and closed by its
\* producer, and the run ended gracefully
C32_Witness ==
    /\ mainpc = "exited"
    /\ par.exitcode = 0
    /\ Len(par.shm_read) = 2
    /\ Len(io.closed) = 2
    /\ \A i \in 1..2 : io.closed[i][3] = "done_with"

\* the archive-hashing tasks of the run, worker and owner, that are not Done
HashingOutstanding ==
    {n \in DOMAIN par.all_task_nodes :
        /\ \/ StartsWith(n, <<"summon.rootgit.", "hash.">>)
           \/ StartsWith(n, <<"summon.rootgit.", "ownhash.">>)
        /\ par.all_task_nodes[n].state # Done}

C34_ByHashIsAllFilesByDigest ==
    fc.state = 3 =>
        \A h \in {f.file_hash : f \in all_files(fc)} \cup DOMAIN fc.files_by_hash :
            file_by_hash(fc, h) = {f \in all_files(fc) : f.file_hash = h}

\* the digests that two files of the downloads folder share and the loaded
\* index does not hold
DuplicateDigests ==
    {h \in {prog.downloads[i].file_hash : i \in DOMAIN prog.downloads} :
        /\ \E i, j \in DOMAIN prog.downloads :
               /\ i < j
               /\ prog.downloads[i].file_hash = h
               /\ prog.downloads[j].file_hash = h
        /\ \A k \in DOMAIN prog.known : prog.known[k].archive_hash # h}

\* C35: with two downloads of the same content that the index does not hold
\* yet, no step of the run raises, and when the run has ended the index in
\* memory holds exactly one entry for that digest
C35_DuplicateDownloadsOneEntry ==
    \A h \in DuplicateDigests :
        /\ par.err = ""
        /\ mainpc = "exited" =>
               Cardinality({i \in DOMAIN rgd.archives_by_hash :
                               rgd.archives_by_hash[i].archive_hash = h}) = 1

OwnLoadArinstTasks ==
    {<<"summon.rootgit.", "ownloadarinst.", all_arinstaller_plugins[i].name>> :
        i \in {j \in DOMAIN all_arinstaller_plugins :
                  all_arinstaller_plugins[j].extra_data_factory}}

FilesUnderRoot == {<<"r", "f1">>, <<"r", "s", "f2">>}

\* the scan tasks that have run
ScanTasksDone ==
    {n \in DOMAIN par.done_task_nodes : StartsWith(n, TaskName("scan.", <<>>))}

\* the files scan_dir met in the scan task n: those it found in the loaded
\* cache and those it asked to hash
VisitedBy(n) ==
    LET sdout == par.done_task_nodes[n].sdout
    IN DOMAIN sdout.scanned_files
       \cup {sdout.requested_files[i].fpath : i \in DOMAIN sdout.requested_files}

C38_OneRetrieverNoError ==
    AfterStage2(io) =>
        /\ io.pc # "failed"
        /\ \A i \in 1..Len(io.mods) :
               \A k \in 1..Len(io.mods[i][2].remaining_after_install_from) :
                   Len(io.mods[i][2].remaining_after_install_from[k][2]) = 1

\* the collections of Parallel that hold the node named n
CollectionsOf(n) ==
    {c \in {"pending", "ready", "readyown", "running", "done"} :
        \/ c = "pending" /\ n \in par.pending_task_nodes
        \/ c = "ready" /\ n \in par.ready_task_nodes
        \/ c = "readyown" /\ n \in par.ready_own_task_nodes
        \/ c = "running" /\ n \in DOMAIN par.running_task_nodes
        \/ c = "done" /\ n \in DOMAIN par.done_task_nodes}

\* the collection the state field of a node stands for
CollectionOfState(node) ==
    IF node.state = Pending THEN {"pending"}
    ELSE IF node.state = Ready
    THEN IF node.task.kind = "OwnTask" THEN {"readyown"} ELSE {"ready"}
    ELSE IF node.state = Running THEN {"running"}
    ELSE {"done"}

\* C39: while no step has raised, every node is in exactly one of the five
\* collections, the one its state field stands for; a node that still waits
\* for a dependency is Pending; the collections hold nodes of the graph only
\* and their sizes add up to the number of nodes
C39_CollectionsPartitionNodes ==
    par.err = "" =>
        /\ \A n \in DOMAIN par.all_task_nodes :
               /\ CollectionsOf(n) = CollectionOfState(par.all_task_nodes[n])
               /\ par.all_task_nodes[n].waiting_for_n_deps > 0
                      => par.all_task_nodes[n].state = Pending
        /\ par.pending_task_nodes \cup par.ready_task_nodes \cup par.ready_own_task_nodes
               \cup DOMAIN par.running_task_nodes \cup DOMAIN par.done_task_nodes
               \subseteq DOMAIN par.all_task_nodes
        /\ Cardinality(par.pending_task_nodes) + Cardinality(par.ready_task_nodes)
               + Cardinality(par.ready_own_task_nodes)
               + Cardinality(DOMAIN par.running_task_nodes)
               + Cardinality(DOMAIN par.done_task_nodes)
           = Cardinality(DOMAIN par.all_task_nodes)

====
